---- MODULE Spec2Model ----
(***************************************************************************)
(* pomo-tui: the timer and session engine of src/app.rs, driven by the     *)
(* event loop of src/main.rs, with the session history of                  *)
(* src/persistence/sessions.rs.                                            *)
(*                                                                         *)
(* The App struct is the record `app`; every method of App is an operator  *)
(* from an App to the App it leaves.  Durations are whole seconds.  An     *)
(* Instant is used by the program only through Instant::now() and          *)
(* elapsed(), so it is held as its age: the seconds since it was taken,    *)
(* which the passing of time increases.  Option<T> is a sequence of        *)
(* length at most one: None is <<>>, Some(x) is <<x>>.  Strings typed by   *)
(* the user are sequences of one-character strings.                        *)
(*                                                                         *)
(* Not modelled (rendering state that no engine operation reads):          *)
(* breathing_phase, hints_visible, hint_fade_counter, show_celebration,    *)
(* celebration_message, celebration_timer, show_help, should_quit,         *)
(* needs_save and the files written, selected_setting (the field an        *)
(* adjustment applies to is an input of the adjustment: j/k reach every    *)
(* field with no other effect), session ids and times of day, task ids.    *)
(***************************************************************************)
EXTENDS Integers, Sequences, FiniteSets, TLC

VARIABLES app, today, last, drift, cycle

vars == <<app, today, last, drift, cycle>>

----------------------------------------------------------------------------
(* Bounds of the model                                                      *)

\* an Instant ages by at most this many steps of TimeStep seconds
MaxClockSteps == 5
\* largest number of minutes a duration setting takes in the model
MaxMins == 2
\* largest sessions-before-long-break setting in the model
MaxSbl == 3
\* tasks in the list
MaxTasks == 2
\* largest pomodoros_spent of a task
MaxPomos == 3
\* sessions in the history
MaxHist == 1
\* characters typed into a task or note prompt
MaxBufLen == 1
\* Work completions counted by the cycle observer
MaxCycle == 6
\* calendar days, numbered from 1
MaxDay == 3
\* sessions added to a history by the streak specification
MaxAdds == 3
MaxBatch == 2
MaxUses == 4
MaxChanged == 1
MaxWrites == 2

----------------------------------------------------------------------------
(* Program constants                                                        *)

SecsPerMin == 60
WorkMinsMax == 120
BreakMinsMax == 60
SblMax == 10
NoteMaxLen == 60
ConfirmMaxLen == 10
GoalMax == 20
HideHintsMax == 10

\* seconds by which one step of the clock advances it: half a minute
TimeStep == SecsPerMin \div 2

----------------------------------------------------------------------------
(* Option, Duration                                                         *)

None == <<>>
Some(x) == <<x>>
IsSome(o) == o # <<>>

Min(a, b) == IF a < b THEN a ELSE b
Max(a, b) == IF a > b THEN a ELSE b
Clamp(v, lo, hi) == IF v < lo THEN lo ELSE IF v > hi THEN hi ELSE v
SaturatingSub(a, b) == IF a > b THEN a - b ELSE 0

----------------------------------------------------------------------------
(* Characters                                                               *)

\* str::to_lowercase / char::to_ascii_uppercase on the letters the model types
Lower(c) ==
    CASE c = "A" -> "a" [] c = "D" -> "d" [] c = "E" -> "e"
      [] c = "L" -> "l" [] c = "T" -> "t" [] c = "X" -> "x"
      [] OTHER -> c

to_ascii_uppercase(c) ==
    CASE c = "a" -> "A" [] c = "d" -> "D" [] c = "e" -> "E"
      [] c = "l" -> "L" [] c = "t" -> "T" [] c = "x" -> "X"
      [] OTHER -> c

to_lowercase(s) == [i \in 1..Len(s) |-> Lower(s[i])]

IsWhitespace(c) == c = " "

\* str::trim().is_empty()
IsBlank(s) == \A i \in 1..Len(s) : IsWhitespace(s[i])

\* String::pop
Pop(s) == IF s = <<>> THEN s ELSE SubSeq(s, 1, Len(s) - 1)

starts_with(s, p) == Len(p) <= Len(s) /\ SubSeq(s, 1, Len(p)) = p

contains(s, p) ==
    \E i \in 0..(Len(s) - Len(p)) : SubSeq(s, i + 1, i + Len(p)) = p

\* str::rfind: the 1-based position of the last c in s, 0 when there is none
rfind(s, c) ==
    IF \E i \in 1..Len(s) : s[i] = c
    THEN CHOOSE i \in 1..Len(s) : s[i] = c /\ \A j \in (i + 1)..Len(s) : s[j] # c
    ELSE 0

----------------------------------------------------------------------------
(* src/persistence/tasks.rs                                                 *)

\* str::split_whitespace
RECURSIVE SplitFrom(_, _, _)
SplitFrom(s, i, word) ==
    IF i > Len(s)
    THEN IF word = <<>> THEN <<>> ELSE <<word>>
    ELSE IF IsWhitespace(s[i])
         THEN (IF word = <<>> THEN <<>> ELSE <<word>>) \o SplitFrom(s, i + 1, <<>>)
         ELSE SplitFrom(s, i + 1, Append(word, s[i]))

split_whitespace(s) == SplitFrom(s, 1, <<>>)

IsTagWord(w) == starts_with(w, <<"#">>) /\ Len(w) > 1

RECURSIVE JoinWords(_)
JoinWords(ws) ==
    IF ws = <<>> THEN <<>>
    ELSE IF Len(ws) = 1 THEN ws[1]
    ELSE ws[1] \o <<" ">> \o JoinWords(Tail(ws))

\* returns (clean_name, tags)
parse_task_input(input) ==
    LET words == split_whitespace(input)
        tagWords == SelectSeq(words, IsTagWord)
        nameWords == SelectSeq(words, LAMBDA w : ~IsTagWord(w))
    IN  [name |-> JoinWords(nameWords),
         tags |-> [i \in 1..Len(tagWords) |-> Tail(tagWords[i])]]

----------------------------------------------------------------------------
(* src/persistence/tags.rs                                                  *)

\* the age in days past which load drops a tag
TagMaxAgeDays == 30

TagInfo_new(name, day) == [name |-> name, last_used |-> day, count |-> 1]

TagStore_default == <<>>

\* faulty variant: the names are compared as typed
FindTag_case_sensitive(tags, name) ==
    IF \E i \in 1..Len(tags) : tags[i].name = name
    THEN CHOOSE i \in 1..Len(tags) :
            tags[i].name = name /\ \A j \in 1..(i - 1) : tags[j].name # name
    ELSE 0

\* the position of the first entry matching name case-insensitively, 0 if none
FindTag(tags, name) ==
    IF \E i \in 1..Len(tags) : to_lowercase(tags[i].name) = to_lowercase(name)
    THEN CHOOSE i \in 1..Len(tags) :
            /\ to_lowercase(tags[i].name) = to_lowercase(name)
            /\ \A j \in 1..(i - 1) : to_lowercase(tags[j].name) # to_lowercase(name)
    ELSE 0

\* faulty variant: a match leaves last_used as it was
RecordOne_keeps_date(tags, name, day) ==
    LET i == FindTag(tags, name)
    IN  IF i # 0
        THEN [tags EXCEPT ![i].count = @ + 1]
        ELSE Append(tags, TagInfo_new(name, day))

RecordOne(tags, name, day) ==
    LET i == FindTag(tags, name)
    IN  IF i # 0
        THEN [tags EXCEPT ![i].count = @ + 1, ![i].last_used = day]
        ELSE Append(tags, TagInfo_new(name, day))

RECURSIVE RecordAll(_, _, _)
RecordAll(tags, names, day) ==
    IF names = <<>> THEN tags
    ELSE RecordAll(RecordOne(tags, Head(names), day), Tail(names), day)

\* slice::sort_by(|a, b| b.count.cmp(&a.count)): stable, descending by count
RECURSIVE InsertByCount(_, _)
InsertByCount(sorted, x) ==
    IF sorted = <<>> THEN <<x>>
    ELSE IF Head(sorted).count >= x.count
         THEN <<Head(sorted)>> \o InsertByCount(Tail(sorted), x)
         ELSE <<x>> \o sorted

RECURSIVE sort_by_count(_)
sort_by_count(tags) ==
    IF tags = <<>> THEN <<>>
    ELSE InsertByCount(sort_by_count(Pop(tags)), tags[Len(tags)])

\* faulty variant: the sort after the batch is left out
record_usage_unsorted(tags, tag_names, day) == RecordAll(tags, tag_names, day)

record_usage(tags, tag_names, day) == sort_by_count(RecordAll(tags, tag_names, day))

\* retain(|t| t.last_used >= cutoff), cutoff = today - 30 days
cleanup_old_tags(tags, day) ==
    SelectSeq(tags, LAMBDA t : t.last_used >= day - TagMaxAgeDays)

\* faulty variant: one scan, a prefix match no better than a substring match
suggest_substring_first(tags, partial) ==
    IF partial = <<>> THEN None
    ELSE LET pl == to_lowercase(partial)
             sub == {i \in 1..Len(tags) : contains(to_lowercase(tags[i].name), pl)}
         IN  IF sub # {}
             THEN Some(tags[CHOOSE i \in sub : \A j \in sub : i <= j].name)
             ELSE None

suggest(tags, partial) ==
    IF partial = <<>> THEN None
    ELSE LET pl == to_lowercase(partial)
             pre == {i \in 1..Len(tags) : starts_with(to_lowercase(tags[i].name), pl)}
             sub == {i \in 1..Len(tags) : contains(to_lowercase(tags[i].name), pl)}
             first(S) == CHOOSE i \in S : \A j \in S : i <= j
         IN  IF pre # {} THEN Some(tags[first(pre)].name)
             ELSE IF sub # {} THEN Some(tags[first(sub)].name)
             ELSE None

----------------------------------------------------------------------------
(* src/persistence/sessions.rs                                              *)

Session_new(session_type, duration_secs, task_name, day) ==
    [date |-> day, session_type |-> session_type, duration_secs |-> duration_secs,
     completed |-> TRUE, task_name |-> task_name, note |-> None]

Session_with_note(session_type, duration_secs, task_name, note, day) ==
    [date |-> day, session_type |-> session_type, duration_secs |-> duration_secs,
     completed |-> TRUE, task_name |-> task_name, note |-> note]

SessionHistory_default ==
    [sessions |-> <<>>, current_streak |-> 0, longest_streak |-> 0,
     last_session_date |-> None]

\* faulty variant: a date in the past leaves the streak as it is
update_streak_past_keeps(h, session_date) ==
    LET h1 ==
          IF IsSome(h.last_session_date)
          THEN LET days_diff == session_date - h.last_session_date[1]
               IN  IF days_diff <= 0 THEN h
                   ELSE IF days_diff = 1
                        THEN [h EXCEPT !.current_streak = @ + 1,
                                       !.longest_streak = Max(@, h.current_streak + 1)]
                        ELSE [h EXCEPT !.current_streak = 1]
          ELSE [h EXCEPT !.current_streak = 1, !.longest_streak = 1]
    IN  [h1 EXCEPT !.last_session_date = Some(session_date)]

\* faulty variant: every Work session counts, the same day included
update_streak_same_day_counts(h, session_date) ==
    LET h1 ==
          IF IsSome(h.last_session_date)
          THEN LET days_diff == session_date - h.last_session_date[1]
               IN  IF days_diff = 0 \/ days_diff = 1
                   THEN [h EXCEPT !.current_streak = @ + 1,
                                  !.longest_streak = Max(@, h.current_streak + 1)]
                   ELSE [h EXCEPT !.current_streak = 1]
          ELSE [h EXCEPT !.current_streak = 1, !.longest_streak = 1]
    IN  [h1 EXCEPT !.last_session_date = Some(session_date)]

\* faulty variant: longest_streak is set by the first session only
update_streak_no_longest(h, session_date) ==
    LET h1 ==
          IF IsSome(h.last_session_date)
          THEN LET days_diff == session_date - h.last_session_date[1]
               IN  IF days_diff = 0 THEN h
                   ELSE IF days_diff = 1
                        THEN [h EXCEPT !.current_streak = @ + 1]
                        ELSE [h EXCEPT !.current_streak = 1]
          ELSE [h EXCEPT !.current_streak = 1, !.longest_streak = 1]
    IN  [h1 EXCEPT !.last_session_date = Some(session_date)]

\* faulty variant: a gap of two days still continues the streak
update_streak_gap_continues(h, session_date) ==
    LET h1 ==
          IF IsSome(h.last_session_date)
          THEN LET days_diff == session_date - h.last_session_date[1]
               IN  IF days_diff = 0 THEN h
                   ELSE IF days_diff = 1 \/ days_diff = 2
                        THEN [h EXCEPT !.current_streak = @ + 1,
                                       !.longest_streak = Max(@, h.current_streak + 1)]
                        ELSE [h EXCEPT !.current_streak = 1]
          ELSE [h EXCEPT !.current_streak = 1, !.longest_streak = 1]
    IN  [h1 EXCEPT !.last_session_date = Some(session_date)]

update_streak(h, session_date) ==
    LET h1 ==
          IF IsSome(h.last_session_date)
          THEN LET days_diff == session_date - h.last_session_date[1]
               IN  IF days_diff = 0 THEN h
                   ELSE IF days_diff = 1
                        THEN [h EXCEPT !.current_streak = @ + 1,
                                       !.longest_streak = Max(@, h.current_streak + 1)]
                        ELSE [h EXCEPT !.current_streak = 1]
          ELSE [h EXCEPT !.current_streak = 1, !.longest_streak = 1]
    IN  [h1 EXCEPT !.last_session_date = Some(session_date)]

\* faulty variant: a session of any type updates the streak
add_any_type(h, session) ==
    [update_streak(h, session.date) EXCEPT !.sessions = Append(@, session)]

\* faulty variant: the history is capped, the oldest session making room
add_dropping_oldest(h, session) ==
    LET h1 == IF session.session_type = "work" THEN update_streak(h, session.date) ELSE h
    IN  [h1 EXCEPT !.sessions = IF @ = <<>> THEN <<session>> ELSE Append(Tail(@), session)]

add(h, session) ==
    LET h1 == IF session.session_type = "work" THEN update_streak(h, session.date) ELSE h
    IN  [h1 EXCEPT !.sessions = Append(@, session)]

\* faulty variant: one day without the app already ends the streak
recalculate_streak_strict(h, day) ==
    IF IsSome(h.last_session_date) /\ day - h.last_session_date[1] >= 1
    THEN [h EXCEPT !.current_streak = 0]
    ELSE h

recalculate_streak(h, day) ==
    IF IsSome(h.last_session_date) /\ day - h.last_session_date[1] > 1
    THEN [h EXCEPT !.current_streak = 0]
    ELSE h

today_pomodoro_count(h, day) ==
    Cardinality({i \in 1..Len(h.sessions) :
                    h.sessions[i].date = day /\ h.sessions[i].session_type = "work"})

\* Iterator::map(|s| s.duration_secs).sum()
RECURSIVE SumSecs(_)
SumSecs(sessions) ==
    IF sessions = <<>> THEN 0
    ELSE Head(sessions).duration_secs + SumSecs(Tail(sessions))

today_focus_secs(h, day) ==
    SumSecs(SelectSeq(h.sessions,
                      LAMBDA s : s.date = day /\ s.session_type = "work"))

\* faulty variant: the breaks are summed too
total_focus_secs_with_breaks(h) == SumSecs(h.sessions)

total_focus_secs(h) ==
    SumSecs(SelectSeq(h.sessions, LAMBDA s : s.session_type = "work"))

\* Iterator::rev
Reverse(s) == [i \in 1..Len(s) |-> s[Len(s) + 1 - i]]

\* Iterator::take
Take(s, n) == SubSeq(s, 1, Min(n, Len(s)))

recent_sessions(h, count) == Take(Reverse(h.sessions), count)

----------------------------------------------------------------------------
(* src/app.rs: types                                                        *)

Pomodoro == [kind |-> "Pomodoro", secs |-> 0]
Timer(secs) == [kind |-> "Timer", secs |-> secs]

TimerStates == {"Work", "ShortBreak", "LongBreak"}

session_type(state) ==
    CASE state = "Work" -> "work"
      [] state = "ShortBreak" -> "short_break"
      [] state = "LongBreak" -> "long_break"

Task_with_tags(name, tags) ==
    [name |-> name, completed |-> FALSE, pomodoros_spent |-> 0, tags |-> tags]

\* Vec::remove(i) with a 0-based index
RemoveAt(seq, i) == SubSeq(seq, 1, i) \o SubSeq(seq, i + 2, Len(seq))

\* the task at a 0-based index
TaskAt(a, i) == a.tasks[i + 1]

----------------------------------------------------------------------------
(* src/app.rs: the timer engine                                             *)

duration_for_state(a, state) ==
    CASE state = "Work" -> a.config.work_duration_mins * SecsPerMin
      [] state = "ShortBreak" -> a.config.short_break_mins * SecsPerMin
      [] state = "LongBreak" -> a.config.long_break_mins * SecsPerMin

get_current_duration(a) ==
    IF a.timer_mode = Pomodoro
    THEN duration_for_state(a, a.timer_state)
    ELSE a.timer_mode.secs

\* Instant::now() and Instant::elapsed()
Instant_now == 0
elapsed(instant) == instant

\* faulty variant: the countdown is decremented by a fixed amount on every call
update_remaining_time_per_call(a) ==
    IF IsSome(a.start_instant)
    THEN [a EXCEPT !.remaining_time = SaturatingSub(@, TimeStep)]
    ELSE a

update_remaining_time(a) ==
    IF IsSome(a.start_instant)
    THEN [a EXCEPT !.remaining_time =
                        SaturatingSub(a.start_remaining, elapsed(a.start_instant[1]))]
    ELSE a

\* faulty variant: a resume keeps the snapshot taken at the first start
toggle_pause_stale_snapshot(a) ==
    IF a.is_paused
    THEN [a EXCEPT !.start_instant = Some(Instant_now),
                   !.is_paused = FALSE,
                   !.focus_mode = IF a.config.focus_mode_on_start THEN TRUE ELSE @]
    ELSE [update_remaining_time(a) EXCEPT !.start_instant = None,
                                             !.is_paused = TRUE]

toggle_pause(a) ==
    IF a.is_paused
    THEN [a EXCEPT !.start_instant = Some(Instant_now),
                   !.start_remaining = a.remaining_time,
                   !.is_paused = FALSE,
                   !.focus_mode = IF a.config.focus_mode_on_start THEN TRUE ELSE @]
    ELSE [update_remaining_time(a) EXCEPT !.start_instant = None,
                                             !.is_paused = TRUE]

\* faulty variant: the anchor survives the reset
reset_timer_keeps_anchor(a) ==
    [a EXCEPT !.remaining_time = get_current_duration(a),
              !.start_remaining = get_current_duration(a),
              !.is_paused = TRUE]

reset_timer(a) ==
    [a EXCEPT !.remaining_time = get_current_duration(a),
              !.start_remaining = get_current_duration(a),
              !.start_instant = None,
              !.is_paused = TRUE]

\* faulty variant: the long break comes one Work interval late
advance_pomodoro_state_late_long(a) ==
    LET a1 == IF a.timer_state = "Work" /\ a.tasks # <<>>
              THEN [a EXCEPT !.tasks[a.selected_task_index + 1].pomodoros_spent = @ + 1]
              ELSE a
        a2 == IF a1.timer_state = "Work"
              THEN IF a1.session_count + 1 > a1.sessions_before_long
                   THEN [a1 EXCEPT !.timer_state = "LongBreak", !.session_count = 0]
                   ELSE [a1 EXCEPT !.timer_state = "ShortBreak", !.session_count = @ + 1]
              ELSE [a1 EXCEPT !.timer_state = "Work"]
        paused == ~a2.config.auto_start_breaks \/ a2.timer_state = "Work"
    IN  [a2 EXCEPT !.remaining_time = duration_for_state(a2, a2.timer_state),
                   !.start_remaining = duration_for_state(a2, a2.timer_state),
                   !.is_paused = paused,
                   !.start_instant = IF paused THEN None ELSE Some(Instant_now)]

\* faulty variant: auto-start applies to every new state, Work included
advance_pomodoro_state_autostart_work(a) ==
    LET a2 == IF a.timer_state = "Work"
              THEN IF a.session_count + 1 >= a.sessions_before_long
                   THEN [a EXCEPT !.timer_state = "LongBreak", !.session_count = 0]
                   ELSE [a EXCEPT !.timer_state = "ShortBreak", !.session_count = @ + 1]
              ELSE [a EXCEPT !.timer_state = "Work"]
        paused == ~a2.config.auto_start_breaks
    IN  [a2 EXCEPT !.remaining_time = duration_for_state(a2, a2.timer_state),
                   !.start_remaining = duration_for_state(a2, a2.timer_state),
                   !.is_paused = paused,
                   !.start_instant = IF paused THEN None ELSE Some(Instant_now)]

\* faulty variant: the auto-started break gets no anchor
advance_pomodoro_state_no_anchor(a) ==
    LET a1 == IF a.timer_state = "Work" /\ a.tasks # <<>>
              THEN [a EXCEPT !.tasks[a.selected_task_index + 1].pomodoros_spent = @ + 1]
              ELSE a
        a2 == IF a1.timer_state = "Work"
              THEN IF a1.session_count + 1 >= a1.sessions_before_long
                   THEN [a1 EXCEPT !.timer_state = "LongBreak", !.session_count = 0]
                   ELSE [a1 EXCEPT !.timer_state = "ShortBreak",
                                   !.session_count = @ + 1]
              ELSE [a1 EXCEPT !.timer_state = "Work"]
        paused == ~a2.config.auto_start_breaks \/ a2.timer_state = "Work"
    IN  [a2 EXCEPT !.remaining_time = duration_for_state(a2, a2.timer_state),
                   !.start_remaining = duration_for_state(a2, a2.timer_state),
                   !.is_paused = paused,
                   !.start_instant = None]

advance_pomodoro_state(a) ==
    LET a1 == IF a.timer_state = "Work" /\ a.tasks # <<>>
              THEN [a EXCEPT !.tasks[a.selected_task_index + 1].pomodoros_spent = @ + 1]
              ELSE a
        a2 == IF a1.timer_state = "Work"
              THEN IF a1.session_count + 1 >= a1.sessions_before_long
                   THEN [a1 EXCEPT !.timer_state = "LongBreak", !.session_count = 0]
                   ELSE [a1 EXCEPT !.timer_state = "ShortBreak",
                                   !.session_count = @ + 1]
              ELSE [a1 EXCEPT !.timer_state = "Work"]
        paused == ~a2.config.auto_start_breaks \/ a2.timer_state = "Work"
    IN  [a2 EXCEPT !.remaining_time = duration_for_state(a2, a2.timer_state),
                   !.start_remaining = duration_for_state(a2, a2.timer_state),
                   !.is_paused = paused,
                   !.start_instant = IF paused THEN None ELSE Some(Instant_now)]

\* faulty variant: a skip records the skipped interval as a session
skip_to_next_recording(a) ==
    IF a.timer_mode = Pomodoro
    THEN advance_pomodoro_state(
            [a EXCEPT !.session_history =
                        add(@, Session_new(session_type(a.timer_state),
                                           get_current_duration(a), None, 1))])
    ELSE a

skip_to_next(a) ==
    IF a.timer_mode = Pomodoro THEN advance_pomodoro_state(a) ELSE a

\* faulty variant: the return to Pomodoro keeps session_count
toggle_mode_keeps_count(a) ==
    LET a1 == IF a.timer_mode = Pomodoro
              THEN [a EXCEPT !.timer_mode = Timer(a.config.work_duration_mins * SecsPerMin),
                             !.remaining_time = a.config.work_duration_mins * SecsPerMin]
              ELSE [a EXCEPT !.timer_mode = Pomodoro,
                             !.timer_state = "Work",
                             !.remaining_time = duration_for_state(a, "Work")]
    IN  [a1 EXCEPT !.start_remaining = a1.remaining_time,
                   !.start_instant = None,
                   !.is_paused = TRUE]

toggle_mode(a) ==
    LET a1 == IF a.timer_mode = Pomodoro
              THEN [a EXCEPT !.timer_mode = Timer(a.config.work_duration_mins * SecsPerMin),
                             !.remaining_time = a.config.work_duration_mins * SecsPerMin]
              ELSE [a EXCEPT !.timer_mode = Pomodoro,
                             !.timer_state = "Work",
                             !.remaining_time = duration_for_state(a, "Work"),
                             !.session_count = 0]
    IN  [a1 EXCEPT !.start_remaining = a1.remaining_time,
                   !.start_instant = None,
                   !.is_paused = TRUE]

\* faulty variant: the pending session is read, not taken
complete_pending_session_keeps_pending(a, note, day) ==
    IF IsSome(a.pending_session)
    THEN LET p == a.pending_session[1]
         IN  [a EXCEPT !.session_history =
                            add(@, Session_with_note(p.session_type, p.duration_secs,
                                                     p.task_name, note, day))]
    ELSE a

complete_pending_session(a, note, day) ==
    IF IsSome(a.pending_session)
    THEN LET p == a.pending_session[1]
         IN  [a EXCEPT !.pending_session = None,
                       !.session_history =
                            add(@, Session_with_note(p.session_type, p.duration_secs,
                                                     p.task_name, note, day))]
    ELSE a

\* faulty variant: the session is built after the advance, from the state entered
on_timer_complete_late(a, day) ==
    LET b == IF a.timer_mode = Pomodoro
             THEN advance_pomodoro_state(a)
             ELSE [a EXCEPT !.is_paused = TRUE]
    IN  IF a.timer_state = "Work"
        THEN [b EXCEPT !.pending_session =
                            Some([session_type |-> session_type(b.timer_state),
                                  duration_secs |-> get_current_duration(b),
                                  task_name |-> None]),
                       !.input_mode = "SessionNote",
                       !.input_buffer = <<>>]
        ELSE [b EXCEPT !.session_history =
                            add(@, Session_new(session_type(b.timer_state),
                                               get_current_duration(b), None, day))]

\* faulty variant: the flat Timer cycles like the Pomodoro
on_timer_complete_cycling(a, day) ==
    LET a1 == IF a.timer_state = "Work"
              THEN [a EXCEPT !.pending_session =
                                 Some([session_type |-> session_type(a.timer_state),
                                       duration_secs |-> get_current_duration(a),
                                       task_name |-> None]),
                             !.input_mode = "SessionNote",
                             !.input_buffer = <<>>]
              ELSE [a EXCEPT !.session_history =
                                 add(@, Session_new(session_type(a.timer_state),
                                                    get_current_duration(a), None, day))]
    IN  advance_pomodoro_state(a1)

on_timer_complete(a, day) ==
    LET task_name == IF a.tasks # <<>>
                     THEN Some(TaskAt(a, a.selected_task_index).name)
                     ELSE None
        a1 == IF a.timer_state = "Work"
              THEN LET b == IF a.tasks # <<>>
                            THEN [a EXCEPT
                                    !.tasks[a.selected_task_index + 1].pomodoros_spent = @ + 1]
                            ELSE a
                   IN  [b EXCEPT !.pending_session =
                                     Some([session_type |-> session_type(a.timer_state),
                                           duration_secs |-> get_current_duration(a),
                                           task_name |-> task_name]),
                                 !.input_mode = "SessionNote",
                                 !.input_buffer = <<>>]
              ELSE [a EXCEPT !.session_history =
                                 add(@, Session_new(session_type(a.timer_state),
                                                    get_current_duration(a),
                                                    task_name, day))]
    IN  IF a1.timer_mode = Pomodoro
        THEN advance_pomodoro_state(a1)
        ELSE [a1 EXCEPT !.is_paused = TRUE]

\* whether tick finds a running countdown at zero
Completes(a) == ~a.is_paused /\ update_remaining_time(a).remaining_time = 0

\* faulty variant: the countdown stays at zero, the completion is not processed
tick_without_completion(a, day) ==
    IF ~a.is_paused THEN update_remaining_time(a) ELSE a

\* faulty variant: the countdown is recomputed whether paused or not
tick_while_paused(a, day) ==
    LET b == update_remaining_time(a)
    IN  IF b.remaining_time = 0 /\ ~a.is_paused THEN on_timer_complete(b, day) ELSE b

tick(a, day) ==
    IF ~a.is_paused
    THEN LET b == update_remaining_time(a)
         IN  IF b.remaining_time = 0 THEN on_timer_complete(b, day) ELSE b
    ELSE a

reset_all_data(a) ==
    [a EXCEPT !.session_history = SessionHistory_default,
              !.tasks = <<>>,
              !.selected_task_index = 0,
              !.tag_store = TagStore_default,
              !.session_count = 0,
              !.remaining_time = duration_for_state(a, "Work"),
              !.is_paused = TRUE]

----------------------------------------------------------------------------
(* src/app.rs: key handlers.  A key is a string: a one-character string is  *)
(* KeyCode::Char of that character, the others are named.                   *)

NamedKeys == {"Enter", "Esc", "Tab", "Backspace", "Up", "Down", "Left", "Right"}
IsChar(key) == key \notin NamedKeys

\* the selection left where it was after tasks were removed
ClampSelection_unclamped(a) == a

\* clamp the selection after tasks were removed
ClampSelection(a) ==
    IF a.tasks = <<>> THEN [a EXCEPT !.selected_task_index = 0]
    ELSE IF a.selected_task_index >= Len(a.tasks)
         THEN [a EXCEPT !.selected_task_index = Len(a.tasks) - 1]
         ELSE a

handle_normal_key(a, key) ==
    LET onTasks == a.active_pane = "Tasks" \/ a.focus_mode
    IN  CASE key = "f" -> [a EXCEPT !.focus_mode = ~@]
          [] key = "1" -> [a EXCEPT !.current_view = "Timer", !.focus_mode = FALSE]
          [] key = "2" -> [a EXCEPT !.current_view = "Dashboard", !.focus_mode = FALSE]
          [] key = "3" -> [a EXCEPT !.current_view = "Settings", !.focus_mode = FALSE]
          [] key = " " -> toggle_pause(a)
          [] key = "r" -> reset_timer(a)
          [] key = "n" -> skip_to_next(a)
          [] key = "m" -> toggle_mode(a)
          [] key = "Tab" ->
                IF ~a.focus_mode
                THEN [a EXCEPT !.active_pane = IF @ = "Tasks" THEN "Timer" ELSE "Tasks"]
                ELSE a
          [] key \in {"k", "Up"} ->
                IF a.active_pane = "Tasks" /\ a.tasks # <<>>
                THEN IF a.selected_task_index > 0
                     THEN [a EXCEPT !.selected_task_index = @ - 1]
                     ELSE [a EXCEPT !.selected_task_index = Len(a.tasks) - 1]
                ELSE a
          [] key \in {"j", "Down"} ->
                IF a.active_pane = "Tasks" /\ a.tasks # <<>>
                THEN IF a.selected_task_index < Len(a.tasks) - 1
                     THEN [a EXCEPT !.selected_task_index = @ + 1]
                     ELSE [a EXCEPT !.selected_task_index = 0]
                ELSE a
          [] key = "a" ->
                IF onTasks
                THEN [a EXCEPT !.input_mode = "AddingTask", !.input_buffer = <<>>]
                ELSE a
          [] key = "d" ->
                IF onTasks /\ a.tasks # <<>>
                THEN ClampSelection([a EXCEPT
                                        !.tasks = RemoveAt(@, a.selected_task_index)])
                ELSE a
          [] key = "c" ->
                IF onTasks
                THEN ClampSelection([a EXCEPT
                                        !.tasks = SelectSeq(@, LAMBDA x : ~x.completed)])
                ELSE a
          [] key = "Enter" ->
                IF onTasks /\ a.tasks # <<>>
                THEN [a EXCEPT !.tasks[a.selected_task_index + 1].completed = ~@]
                ELSE a
          [] key = "Esc" -> [a EXCEPT !.focus_mode = FALSE]
          [] OTHER -> a

update_tag_suggestion(a) ==
    LET last_hash_pos == rfind(a.input_buffer, "#")
        partial_tag == SubSeq(a.input_buffer, last_hash_pos + 1, Len(a.input_buffer))
    IN  IF last_hash_pos # 0 /\ partial_tag # <<>>
           /\ ~(\E i \in 1..Len(partial_tag) : partial_tag[i] = " ")
        THEN [a EXCEPT !.tag_suggestion = suggest(a.tag_store, partial_tag)]
        ELSE [a EXCEPT !.tag_suggestion = None]

accept_tag_suggestion(a, suggestion) ==
    LET last_hash_pos == rfind(a.input_buffer, "#")
    IN  IF last_hash_pos # 0
        THEN [a EXCEPT !.input_buffer =
                            SubSeq(@, 1, last_hash_pos) \o suggestion \o <<" ">>]
        ELSE a

handle_input_key(a, key, day) ==
    CASE key = "Enter" ->
            LET parsed == parse_task_input(a.input_buffer)
                a1 == IF a.input_buffer # <<>> /\ ~IsBlank(parsed.name)
                      THEN [a EXCEPT
                              !.tag_store = IF parsed.tags # <<>>
                                            THEN record_usage(@, parsed.tags, day)
                                            ELSE @,
                              !.tasks = Append(@, Task_with_tags(parsed.name, parsed.tags)),
                              !.selected_task_index = Len(a.tasks)]
                      ELSE a
            IN  [a1 EXCEPT !.input_mode = "Normal", !.input_buffer = <<>>,
                           !.tag_suggestion = None]
      [] key = "Esc" ->
            [a EXCEPT !.input_mode = "Normal", !.input_buffer = <<>>,
                      !.tag_suggestion = None]
      [] key = "Tab" ->
            IF IsSome(a.tag_suggestion)
            THEN accept_tag_suggestion([a EXCEPT !.tag_suggestion = None],
                                       a.tag_suggestion[1])
            ELSE a
      [] key = "Backspace" ->
            update_tag_suggestion([a EXCEPT !.input_buffer = Pop(@)])
      [] IsChar(key) ->
            update_tag_suggestion([a EXCEPT !.input_buffer = Append(@, key)])
      [] OTHER -> a

handle_session_note_key(a, key, day) ==
    CASE key = "Enter" ->
            LET note == IF IsBlank(a.input_buffer) THEN None ELSE Some(a.input_buffer)
            IN  [complete_pending_session(a, note, day) EXCEPT
                    !.input_mode = "Normal", !.input_buffer = <<>>, !.is_paused = TRUE]
      [] key = " " ->
            IF a.input_buffer = <<>>
            THEN toggle_pause([complete_pending_session(a, None, day) EXCEPT
                                  !.input_mode = "Normal", !.input_buffer = <<>>])
            ELSE IF Len(a.input_buffer) < NoteMaxLen
                 THEN [a EXCEPT !.input_buffer = Append(@, " ")]
                 ELSE a
      [] key = "Esc" ->
            [complete_pending_session(a, None, day) EXCEPT
                !.input_mode = "Normal", !.input_buffer = <<>>, !.is_paused = TRUE]
      [] key = "Backspace" -> [a EXCEPT !.input_buffer = Pop(@)]
      [] IsChar(key) /\ key # " " ->
            IF Len(a.input_buffer) < NoteMaxLen
            THEN [a EXCEPT !.input_buffer = Append(@, key)]
            ELSE a
      [] OTHER -> a

handle_timer_view_key(a, key, day) ==
    CASE a.input_mode = "Normal" -> handle_normal_key(a, key)
      [] a.input_mode \in {"AddingTask", "QuickCapture"} -> handle_input_key(a, key, day)
      [] a.input_mode = "SessionNote" -> handle_session_note_key(a, key, day)
      [] a.input_mode = "ConfirmReset" -> [a EXCEPT !.input_mode = "Normal"]

handle_dashboard_key(a, key) ==
    CASE key = "1" -> [a EXCEPT !.current_view = "Timer"]
      [] key = "2" -> [a EXCEPT !.current_view = "Dashboard"]
      [] key = "3" -> [a EXCEPT !.current_view = "Settings"]
      [] key = "Esc" -> [a EXCEPT !.current_view = "Timer"]
      [] OTHER -> a

\* faulty variant: the daily goal is not clamped
adjust_setting_unclamped_goal(a, field, delta) ==
    CASE field = "WorkDuration" ->
            [a EXCEPT !.config.work_duration_mins = Clamp(@ + delta, 1, WorkMinsMax)]
      [] field = "ShortBreak" ->
            [a EXCEPT !.config.short_break_mins = Clamp(@ + delta, 1, BreakMinsMax)]
      [] field = "LongBreak" ->
            [a EXCEPT !.config.long_break_mins = Clamp(@ + delta, 1, BreakMinsMax)]
      [] field = "SessionsBeforeLong" ->
            [a EXCEPT !.config.sessions_before_long_break = Clamp(@ + delta, 1, SblMax),
                      !.sessions_before_long =
                            Clamp(a.config.sessions_before_long_break + delta, 1, SblMax)]
      [] field = "DailyGoal" ->
            [a EXCEPT !.config.daily_goal_pomodoros = Max(@ + delta, 0)]
      [] field = "ShowStreak" -> [a EXCEPT !.config.show_streak = ~@]
      [] field = "BreathingAnimation" -> [a EXCEPT !.config.breathing_enabled = ~@]
      [] field = "HideHintsAfter" ->
            [a EXCEPT !.config.hide_hints_after_secs = Clamp(@ + delta, 0, HideHintsMax)]
      [] field = "AutoStartBreaks" -> [a EXCEPT !.config.auto_start_breaks = ~@]
      [] field = "FocusModeOnStart" -> [a EXCEPT !.config.focus_mode_on_start = ~@]
      [] field = "NotificationsEnabled" ->
            [a EXCEPT !.config.notifications_enabled = ~@]
      [] field = "ResetData" ->
            [a EXCEPT !.input_mode = "ConfirmReset", !.input_buffer = <<>>]

\* field is App::selected_setting
adjust_setting(a, field, delta) ==
    CASE field = "WorkDuration" ->
            [a EXCEPT !.config.work_duration_mins = Clamp(@ + delta, 1, WorkMinsMax)]
      [] field = "ShortBreak" ->
            [a EXCEPT !.config.short_break_mins = Clamp(@ + delta, 1, BreakMinsMax)]
      [] field = "LongBreak" ->
            [a EXCEPT !.config.long_break_mins = Clamp(@ + delta, 1, BreakMinsMax)]
      [] field = "SessionsBeforeLong" ->
            [a EXCEPT !.config.sessions_before_long_break = Clamp(@ + delta, 1, SblMax),
                      !.sessions_before_long =
                            Clamp(a.config.sessions_before_long_break + delta, 1, SblMax)]
      [] field = "DailyGoal" ->
            [a EXCEPT !.config.daily_goal_pomodoros = Clamp(@ + delta, 1, GoalMax)]
      [] field = "ShowStreak" -> [a EXCEPT !.config.show_streak = ~@]
      [] field = "BreathingAnimation" -> [a EXCEPT !.config.breathing_enabled = ~@]
      [] field = "HideHintsAfter" ->
            [a EXCEPT !.config.hide_hints_after_secs = Clamp(@ + delta, 0, HideHintsMax)]
      [] field = "AutoStartBreaks" -> [a EXCEPT !.config.auto_start_breaks = ~@]
      [] field = "FocusModeOnStart" -> [a EXCEPT !.config.focus_mode_on_start = ~@]
      [] field = "NotificationsEnabled" ->
            [a EXCEPT !.config.notifications_enabled = ~@]
      [] field = "ResetData" ->
            [a EXCEPT !.input_mode = "ConfirmReset", !.input_buffer = <<>>]

DELETE == <<"D", "E", "L", "E", "T", "E">>

\* faulty variant: Enter resets whatever was typed
handle_confirm_reset_key_any_buffer(a, key) ==
    CASE key = "Enter" ->
            [reset_all_data(a) EXCEPT !.input_mode = "Normal", !.input_buffer = <<>>]
      [] key = "Esc" -> [a EXCEPT !.input_mode = "Normal", !.input_buffer = <<>>]
      [] key = "Backspace" -> [a EXCEPT !.input_buffer = Pop(@)]
      [] IsChar(key) ->
            IF Len(a.input_buffer) < ConfirmMaxLen
            THEN [a EXCEPT !.input_buffer = Append(@, to_ascii_uppercase(key))]
            ELSE a
      [] OTHER -> a

handle_confirm_reset_key(a, key) ==
    CASE key = "Enter" ->
            [(IF a.input_buffer = DELETE THEN reset_all_data(a) ELSE a) EXCEPT
                !.input_mode = "Normal", !.input_buffer = <<>>]
      [] key = "Esc" -> [a EXCEPT !.input_mode = "Normal", !.input_buffer = <<>>]
      [] key = "Backspace" -> [a EXCEPT !.input_buffer = Pop(@)]
      [] IsChar(key) ->
            IF Len(a.input_buffer) < ConfirmMaxLen
            THEN [a EXCEPT !.input_buffer = Append(@, to_ascii_uppercase(key))]
            ELSE a
      [] OTHER -> a

handle_settings_key(a, key, field) ==
    IF a.input_mode = "ConfirmReset" THEN handle_confirm_reset_key(a, key)
    ELSE CASE key = "1" -> [a EXCEPT !.current_view = "Timer"]
           [] key = "2" -> [a EXCEPT !.current_view = "Dashboard"]
           [] key = "3" -> [a EXCEPT !.current_view = "Settings"]
           [] key = "Esc" -> [a EXCEPT !.current_view = "Timer"]
           [] key \in {"l", "Right", "Enter"} -> adjust_setting(a, field, 1)
           [] key \in {"h", "Left"} -> adjust_setting(a, field, -1)
           [] OTHER -> a

handle_key(a, key, field, day) ==
    IF key = "/" /\ a.input_mode = "Normal"
    THEN [a EXCEPT !.input_mode = "QuickCapture", !.input_buffer = <<>>]
    ELSE CASE a.current_view = "Timer" -> handle_timer_view_key(a, key, day)
           [] a.current_view = "Dashboard" -> handle_dashboard_key(a, key)
           [] a.current_view = "Settings" -> handle_settings_key(a, key, field)

----------------------------------------------------------------------------
(* The state after App::new()                                               *)

\* impl Default for Config
Config_default ==
    [work_duration_mins |-> 25, short_break_mins |-> 5, long_break_mins |-> 15,
     sessions_before_long_break |-> 4, default_mode |-> "pomodoro",
     auto_start_breaks |-> FALSE, daily_goal_pomodoros |-> 8,
     show_streak |-> TRUE, breathing_enabled |-> FALSE,
     hide_hints_after_secs |-> 3, theme |-> "dark",
     focus_mode_on_start |-> FALSE, notifications_enabled |-> TRUE]

\* a stored configuration, the fields the engine does not read at their defaults
Config_loaded(work, short, long, sbl, auto, focus) ==
    [Config_default EXCEPT
        !.work_duration_mins = work, !.short_break_mins = short,
        !.long_break_mins = long, !.sessions_before_long_break = sbl,
        !.auto_start_breaks = auto, !.focus_mode_on_start = focus]

App_new(config, tasks, tag_store) ==
    [timer_mode |-> Pomodoro,
     timer_state |-> "Work",
     remaining_time |-> config.work_duration_mins * SecsPerMin,
     is_paused |-> TRUE,
     start_instant |-> None,
     start_remaining |-> config.work_duration_mins * SecsPerMin,
     session_count |-> 0,
     sessions_before_long |-> config.sessions_before_long_break,
     tasks |-> tasks,
     selected_task_index |-> 0,
     active_pane |-> "Tasks",
     current_view |-> "Timer",
     input_mode |-> "Normal",
     input_buffer |-> <<>>,
     focus_mode |-> FALSE,
     config |-> config,
     session_history |-> SessionHistory_default,
     tag_store |-> tag_store,
     tag_suggestion |-> None,
     pending_session |-> None]

----------------------------------------------------------------------------
(* src/persistence: the records as they are written to and read from their  *)
(* files.  A document is a function from the field names written to their   *)
(* values.                                                                   *)

ConfigFields ==
    {"work_duration_mins", "short_break_mins", "long_break_mins",
     "sessions_before_long_break", "default_mode", "auto_start_breaks",
     "daily_goal_pomodoros", "show_streak", "breathing_enabled",
     "hide_hints_after_secs", "theme", "focus_mode_on_start",
     "notifications_enabled"}

\* serde_json::to_string_pretty(self): every field of the struct
Config_save(config) == [f \in ConfigFields |-> config[f]]

\* serde_json::from_str(&contents).unwrap_or_default(): no field of Config
\* has a serde default, so a document that lacks one is an error and the
\* default Config is the result; fields not of the struct are ignored
Config_load(doc) ==
    IF ConfigFields \subseteq DOMAIN doc
    THEN [f \in ConfigFields |-> doc[f]]
    ELSE Config_default

\* the document without one of its fields
Without(doc, field) == [f \in DOMAIN doc \ {field} |-> doc[f]]

Session_save(s) ==
    [timestamp |-> s.date, session_type |-> s.session_type,
     duration_secs |-> s.duration_secs, completed |-> s.completed,
     task_name |-> s.task_name, note |-> s.note]

\* note is #[serde(default)]
Session_load(doc) ==
    [date |-> doc.timestamp, session_type |-> doc.session_type,
     duration_secs |-> doc.duration_secs, completed |-> doc.completed,
     task_name |-> doc.task_name,
     note |-> IF "note" \in DOMAIN doc THEN doc.note ELSE None]

SessionHistory_save(h) ==
    [sessions |-> [i \in 1..Len(h.sessions) |-> Session_save(h.sessions[i])],
     current_streak |-> h.current_streak, longest_streak |-> h.longest_streak,
     last_session_date |-> h.last_session_date]

\* faulty variant: the history is taken as it was saved
SessionHistory_load_as_saved(doc, day) ==
    [sessions |-> [i \in 1..Len(doc.sessions) |-> Session_load(doc.sessions[i])],
     current_streak |-> doc.current_streak, longest_streak |-> doc.longest_streak,
     last_session_date |-> doc.last_session_date]

SessionHistory_load(doc, day) ==
    recalculate_streak(
        [sessions |-> [i \in 1..Len(doc.sessions) |-> Session_load(doc.sessions[i])],
         current_streak |-> doc.current_streak, longest_streak |-> doc.longest_streak,
         last_session_date |-> doc.last_session_date],
        day)

TagStore_save(tags) ==
    [tags |-> [i \in 1..Len(tags) |->
                [name |-> tags[i].name, last_used |-> tags[i].last_used,
                 count |-> tags[i].count]]]

TagStore_load(doc, day) ==
    cleanup_old_tags(
        [i \in 1..Len(doc.tags) |->
            [name |-> doc.tags[i].name, last_used |-> doc.tags[i].last_used,
             count |-> doc.tags[i].count]],
        day)

\* App::save_tasks: the TaskStore written, created_at being the time of saving
save_tasks(a, day) ==
    [tasks |-> [i \in 1..Len(a.tasks) |->
                [name |-> a.tasks[i].name, completed |-> a.tasks[i].completed,
                 pomodoros_spent |-> a.tasks[i].pomodoros_spent,
                 tags |-> a.tasks[i].tags, created_at |-> day]]]

\* TaskStore::load and the Task made of each TaskData in App::new
TaskStore_load(doc) ==
    [i \in 1..Len(doc.tasks) |->
        [name |-> doc.tasks[i].name, completed |-> doc.tasks[i].completed,
         pomodoros_spent |-> doc.tasks[i].pomodoros_spent,
         tags |-> doc.tasks[i].tags]]

\* the App made of the four files when the program starts
App_from_files(config_doc, history_doc, tags_doc, tasks_doc, day) ==
    [App_new(Config_load(config_doc), TaskStore_load(tasks_doc),
             TagStore_load(tags_doc, day)) EXCEPT
        !.session_history = SessionHistory_load(history_doc, day)]

----------------------------------------------------------------------------
(* Inputs of the model                                                      *)

\* characters typed into the task prompt and into the note prompt
TaskChars == {"a"}
NoteChars == {"x"}

\* characters typed into the reset confirmation: the next letter of DELETE,
\* and a wrong letter before the first and after the last
ConfirmChars(buf) ==
    (IF Len(buf) < Len(DELETE) /\ buf = SubSeq(DELETE, 1, Len(buf))
     THEN {Lower(DELETE[Len(buf) + 1])} ELSE {})
    \cup (IF buf = <<>> \/ buf = DELETE THEN {"x"} ELSE {})

\* the keys that some handler acts on in the view and input mode of a
KeysFor(a) ==
    CASE a.current_view = "Timer" /\ a.input_mode = "Normal" ->
            {" ", "r", "n", "m", "f", "1", "2", "3", "a", "d", "c", "/",
             "Tab", "Up", "Down", "Enter", "Esc"}
      [] a.current_view = "Timer" /\ a.input_mode \in {"AddingTask", "QuickCapture"} ->
            {"Enter", "Esc", "Tab", "Backspace"}
            \cup (IF Len(a.input_buffer) < MaxBufLen THEN TaskChars ELSE {})
      [] a.current_view = "Timer" /\ a.input_mode = "SessionNote" ->
            {"Enter", "Esc", "Backspace"}
            \cup (IF a.input_buffer = <<>> THEN {" "} ELSE {})
            \cup (IF Len(a.input_buffer) < MaxBufLen THEN NoteChars \cup {" "} ELSE {})
      [] a.current_view = "Timer" /\ a.input_mode = "ConfirmReset" -> {"Esc"}
      [] a.current_view = "Settings" /\ a.input_mode = "ConfirmReset" ->
            {"Enter", "Esc", "Backspace"} \cup ConfirmChars(a.input_buffer)
      [] a.current_view = "Settings" /\ a.input_mode # "ConfirmReset" ->
            {"1", "2", "3", "Esc", "/", "Left", "Right"}
      [] a.current_view = "Dashboard" -> {"1", "2", "3", "Esc", "/"}

\* whether the keys go to a text prompt
InPrompt(a) ==
    \/ a.current_view = "Timer" /\ a.input_mode # "Normal"
    \/ a.current_view = "Settings" /\ a.input_mode = "ConfirmReset"

\* the keys of the engine: pause/resume, reset, skip, mode, and the settings view
EngineKeys == {" ", "r", "n", "m", "1", "3", "Left", "Right"}

\* selected_setting matters to the keys that adjust a setting only
FieldsFor(a, key, F) ==
    IF a.current_view = "Settings" /\ a.input_mode # "ConfirmReset"
       /\ key \in {"Enter", "Left", "Right", "l", "h"}
    THEN F
    ELSE {"WorkDuration"}

\* the settings view with the reset confirmation and the cycle length
ResetFields == {"SessionsBeforeLong", "ResetData"}

WithinBounds(a) ==
    /\ Len(a.tasks) <= MaxTasks
    /\ \A i \in 1..Len(a.tasks) : a.tasks[i].pomodoros_spent <= MaxPomos
    /\ Len(a.session_history.sessions) <= MaxHist
    /\ a.config.work_duration_mins <= MaxMins
    /\ a.config.short_break_mins <= MaxMins
    /\ a.config.long_break_mins <= MaxMins
    /\ a.config.sessions_before_long_break <= MaxSbl

----------------------------------------------------------------------------
(* Observers: what the last step did, the time run since the interval was   *)
(* last restarted, and the Work completions counted since session_count     *)
(* was last zeroed.  No operation of the program reads them.                *)

Sessions(a) == a.session_history.sessions

\* the operation a key invokes
KeyOp(a, key, field) ==
    CASE key = "/" /\ a.input_mode = "Normal" -> "other"
      [] a.current_view = "Timer" /\ a.input_mode = "Normal" /\ key = " " -> "toggle"
      [] a.current_view = "Timer" /\ a.input_mode = "Normal" /\ key = "r" -> "reset"
      [] a.current_view = "Timer" /\ a.input_mode = "Normal" /\ key = "n" -> "skip"
      [] a.current_view = "Timer" /\ a.input_mode = "Normal" /\ key = "m" -> "mode"
      [] a.current_view = "Timer" /\ a.input_mode = "SessionNote"
            /\ key \in {"Enter", "Esc"} -> "dismiss"
      [] a.current_view = "Timer" /\ a.input_mode = "SessionNote"
            /\ key = " " /\ a.input_buffer = <<>> -> "continue"
      [] a.current_view = "Settings" /\ a.input_mode = "ConfirmReset"
            /\ key = "Enter" /\ a.input_buffer = DELETE -> "reset_all"
      [] a.current_view = "Settings" /\ a.input_mode # "ConfirmReset"
            /\ key \in {"Enter", "Left", "Right"} /\ field # "ResetData" -> "adjust"
      [] OTHER -> "other"

\* the operations that start the interval afresh (the rest leave it running or
\* paused as toggle_pause left it)
Restarts == {"reset", "skip", "mode", "dismiss", "reset_all", "complete"}

DriftAfter(op, a2) ==
    IF op \in Restarts /\ ~(op = "skip" /\ a2.timer_mode # Pomodoro)
    THEN [base |-> IF a2.is_paused THEN a2.remaining_time ELSE a2.start_remaining,
          run |-> 0, pauses |-> 0]
    ELSE IF op \in {"toggle", "continue"} /\ a2.is_paused
         THEN [drift EXCEPT !.pauses = Min(@ + 1, 2)]
         ELSE drift

CycleAfter(op, a, a2) ==
    IF a.timer_mode = Pomodoro /\ a.timer_state = "Work" /\ op \in {"skip", "complete"}
    THEN IF cycle.valid /\ cycle.k < MaxCycle
         THEN [cycle EXCEPT !.k = @ + 1]
         ELSE [valid |-> FALSE, k |-> 0]
    ELSE IF op \in {"mode", "reset_all"} /\ a2.timer_mode = Pomodoro
         THEN [valid |-> TRUE, k |-> 0]
         ELSE IF a2.sessions_before_long # a.sessions_before_long
              THEN [valid |-> a2.session_count = 0, k |-> 0]
              ELSE cycle

----------------------------------------------------------------------------
(* The event loop of run_app: a key is handled, or tick is called; time     *)
(* passes in between.  K and F are the keys and the settings the            *)
(* specification presses outside the prompts and adjusts.                   *)

\* the loop runs tick after every key it handles, so a key that leaves a
\* completion due is followed by the tick before the next key is read
TickDue == last \notin {"init", "tick", "complete", "time"} /\ Completes(app)

\* the settings adjust_setting clamps
NumericFields ==
    {"WorkDuration", "ShortBreak", "LongBreak", "SessionsBeforeLong",
     "DailyGoal", "HideHintsAfter"}

SettingValue(config, field) ==
    CASE field = "WorkDuration" -> config.work_duration_mins
      [] field = "ShortBreak" -> config.short_break_mins
      [] field = "LongBreak" -> config.long_break_mins
      [] field = "SessionsBeforeLong" -> config.sessions_before_long_break
      [] field = "DailyGoal" -> config.daily_goal_pomodoros
      [] field = "HideHintsAfter" -> config.hide_hints_after_secs

\* the numeric settings that differ from the default are at most MaxChanged
SettingsWithinBounds(a) ==
    Cardinality({field \in NumericFields :
        SettingValue(a.config, field) # SettingValue(Config_default, field)}) <= MaxChanged

\* a key of K is handled, with selected_setting in F, the state after it
\* within the bounds named: those of the settings view or those of the engine
KeyWithin(K, F, bounds) ==
    /\ ~TickDue
    /\ \E key \in (IF InPrompt(app) THEN KeysFor(app) ELSE KeysFor(app) \cap K) :
        \E field \in FieldsFor(app, key, F) :
            LET a2 == handle_key(app, key, field, today)
            IN  /\ IF bounds = "settings" THEN SettingsWithinBounds(a2)
                   ELSE WithinBounds(a2)
                /\ app' = a2
                /\ last' = KeyOp(app, key, field)
                /\ UNCHANGED today

Key(K, F) == KeyWithin(K, F, "engine")

Tick ==
    LET a2 == tick(app, today)
    IN  /\ WithinBounds(a2)
        /\ app' = a2
        /\ last' = IF Completes(app) THEN "complete" ELSE "tick"
        /\ UNCHANGED today

\* TimeStep seconds pass while the countdown runs: the Instant the App holds
\* ages.  (No operation reads the Instant while is_paused holds, so the time
\* that passes then is not followed.)
AdvanceTime ==
    /\ ~app.is_paused
    /\ IsSome(app.start_instant)
    /\ app.start_instant[1] < MaxClockSteps * TimeStep
    /\ ~TickDue
    /\ app' = [app EXCEPT !.start_instant = Some(@[1] + TimeStep)]
    /\ last' = "time"
    /\ UNCHANGED today

\* the configurations loaded at start: the cycle length and the auto-start flag
LoadedConfigs ==
    {Config_loaded(1, 1, 2, sbl, auto, FALSE) : sbl \in 1..MaxSbl, auto \in BOOLEAN}

InitWith(configs, tasklists) ==
    /\ \E config \in configs, tasks \in tasklists : app = App_new(config, tasks, <<>>)
    /\ today = 1
    /\ last = "init"
    /\ drift = [base |-> app.remaining_time, run |-> 0, pauses |-> 0]
    /\ cycle = [valid |-> TRUE, k |-> 0]

\* Spec: the engine (pause/resume, reset, skip, mode switch, tick, the note
\* prompt), started from every loaded configuration, with no tasks
Init == InitWith(LoadedConfigs, {<<>>})

Next ==
    \/ Key({" ", "r", "n", "m"}, {}) /\ UNCHANGED <<drift, cycle>>
    \/ Tick /\ UNCHANGED <<drift, cycle>>
    \/ AdvanceTime /\ UNCHANGED <<drift, cycle>>

Spec == Init /\ [][Next]_vars

\* SpecReset: the engine with the settings view: the cycle length is adjusted
\* and all data is reset
NextReset ==
    \/ Key(EngineKeys, ResetFields) /\ UNCHANGED <<drift, cycle>>
    \/ Tick /\ UNCHANGED <<drift, cycle>>
    \/ AdvanceTime /\ UNCHANGED <<drift, cycle>>

SpecReset ==
    InitWith({Config_loaded(1, 1, 2, 2, TRUE, FALSE)}, {<<>>}) /\ [][NextReset]_vars

\* SpecWipe: the engine with the reset of all data confirmed in the settings
\* view
NextWipe ==
    \/ Key({" ", "n", "1", "3", "Right"}, {"ResetData"}) /\ UNCHANGED <<drift, cycle>>
    \/ Tick /\ UNCHANGED <<drift, cycle>>
    \/ AdvanceTime /\ UNCHANGED <<drift, cycle>>

SpecWipe ==
    InitWith({Config_loaded(1, 1, 1, 2, auto, FALSE) : auto \in BOOLEAN}, {<<>>})
        /\ [][NextWipe]_vars

\* SpecDrift: pause/resume cycles with the time run since the last restart
\* followed in drift
NextDrift ==
    \/ Key({" ", "r", "n"}, {}) /\ drift' = DriftAfter(last', app') /\ UNCHANGED cycle
    \/ Tick /\ drift' = DriftAfter(last', app') /\ UNCHANGED cycle
    \/ /\ AdvanceTime
       /\ drift.run < MaxClockSteps * TimeStep
       /\ drift' = [drift EXCEPT !.run = @ + TimeStep]
       /\ UNCHANGED cycle

SpecDrift ==
    InitWith({Config_loaded(MaxMins, 1, 1, 1, auto, FALSE) : auto \in BOOLEAN}, {<<>>})
        /\ [][NextDrift]_vars

\* SpecCycle: the Pomodoro cycle, started from every cycle length, with the
\* Work completions counted in cycle
NextCycle ==
    \/ Key({" ", "n", "m"}, {}) /\ cycle' = CycleAfter(last', app, app') /\ UNCHANGED drift
    \/ Tick /\ cycle' = CycleAfter(last', app, app') /\ UNCHANGED drift
    \/ AdvanceTime /\ UNCHANGED <<drift, cycle>>

SpecCycle == InitWith(LoadedConfigs, {<<>>}) /\ [][NextCycle]_vars

\* SpecTasks: the engine with two tasks loaded and the selection moved
LoadedTasks ==
    <<Task_with_tags(<<"a">>, <<>>), Task_with_tags(<<"b">>, <<>>)>>

NextTasks ==
    \/ Key({" ", "n", "m", "Up", "Down"}, {}) /\ UNCHANGED <<drift, cycle>>
    \/ Tick /\ UNCHANGED <<drift, cycle>>
    \/ AdvanceTime /\ UNCHANGED <<drift, cycle>>

SpecTasks ==
    InitWith({Config_loaded(1, 1, 1, 2, auto, FALSE) : auto \in BOOLEAN}, {LoadedTasks})
        /\ [][NextTasks]_vars

\* SpecStreak: the session history as a store: sessions of every type and
\* date are added, the days pass, and the app is restarted, which loads the
\* history and recalculates the streak.  The engine is left alone.
SessionTypes == {session_type(st) : st \in TimerStates}

AddSession(D) ==
    /\ Len(Sessions(app)) < MaxAdds
    /\ \E ty \in SessionTypes, d \in D :
            app' = [app EXCEPT !.session_history =
                        add(@, Session_new(ty, get_current_duration(app), None, d))]
    /\ last' = "add"
    /\ UNCHANGED <<today, drift, cycle>>

\* the program is quit, which saves, and started again
Load ==
    /\ app' = App_from_files(Config_save(app.config),
                             SessionHistory_save(app.session_history),
                             TagStore_save(app.tag_store),
                             save_tasks(app, today), today)
    /\ last' = "load"
    /\ UNCHANGED <<today, drift, cycle>>

NextDay ==
    /\ today < MaxDay
    /\ today' = today + 1
    /\ last' = "day"
    /\ UNCHANGED <<app, drift, cycle>>

NextStreak == AddSession(1..MaxDay) \/ Load \/ NextDay

SpecStreak ==
    InitWith({Config_loaded(1, 1, 1, 1, FALSE, FALSE)}, {<<>>}) /\ [][NextStreak]_vars

\* SpecDays: the history as the program fills it: every session is dated the
\* day it is added (Utc::now), so the dates never decrease
NextDays == AddSession({today}) \/ Load \/ NextDay

SpecDays ==
    InitWith({Config_loaded(1, 1, 1, 1, FALSE, FALSE)}, {<<>>}) /\ [][NextDays]_vars

\* SpecSettings: the settings view from the default configuration, the
\* numeric settings adjusted up and down through their whole ranges
NextSettings ==
    KeyWithin({"1", "3", "Left", "Right"}, NumericFields, "settings")
        /\ UNCHANGED <<drift, cycle>>

SpecSettings == InitWith({Config_default}, {<<>>}) /\ [][NextSettings]_vars

\* SpecTags: the tag store under batches of names, days passing and loads
TagNames == {<<"a">>, <<"A">>, <<"b", "a">>}

RECURSIVE SeqsUpTo(_, _)
SeqsUpTo(S, n) ==
    IF n = 0 THEN {<<>>}
    ELSE LET shorter == SeqsUpTo(S, n - 1)
         IN  shorter \cup {Append(q, x) : q \in shorter, x \in S}

Batches == SeqsUpTo(TagNames, MaxBatch) \ {<<>>}

RECURSIVE SumCounts(_)
SumCounts(tags) ==
    IF tags = <<>> THEN 0 ELSE Head(tags).count + SumCounts(Tail(tags))

\* a batch of B is recorded
RecordUsage(B) ==
    /\ \E batch \in B :
            /\ SumCounts(app.tag_store) + Len(batch) <= MaxUses
            /\ app' = [app EXCEPT !.tag_store = record_usage(@, batch, today)]
    /\ last' = "record"
    /\ UNCHANGED <<today, drift, cycle>>

\* the program is not opened for the days after which a tag is dropped
Away ==
    /\ today <= MaxDay
    /\ today' = today + TagMaxAgeDays
    /\ last' = "day"
    /\ UNCHANGED <<app, drift, cycle>>

NextTags == RecordUsage(Batches) \/ Load \/ NextDay \/ Away

SpecTags == InitWith({Config_loaded(1, 1, 1, 2, FALSE, FALSE)}, {<<>>}) /\ [][NextTags]_vars

\* the program is started on a config file that lacks one field; last names
\* the field
LoadWithout ==
    /\ \E field \in ConfigFields :
            /\ app' = App_from_files(Without(Config_save(app.config), field),
                                     SessionHistory_save(app.session_history),
                                     TagStore_save(app.tag_store),
                                     save_tasks(app, today), today)
            /\ last' = field
    /\ UNCHANGED <<today, drift, cycle>>

\* SpecDisk: sessions are added and tags are recorded beside a stored
\* configuration and stored tasks, the days pass and the program is restarted
DiskWithin == Len(Sessions(app)) + SumCounts(app.tag_store) <= MaxWrites

NextDisk ==
    \/ AddSession({today}) /\ DiskWithin'
    \/ RecordUsage({<<name>> : name \in {<<"a">>, <<"b">>}}) /\ DiskWithin'
    \/ NextDay
    \/ Away
    \/ Load

SpecDisk ==
    InitWith({Config_loaded(1, 1, 1, 2, FALSE, FALSE)}, {LoadedTasks}) /\ [][NextDisk]_vars

\* SpecConfig: the settings are adjusted from the default configuration, and
\* the program is restarted on the config file as saved or lacking a field
NextConfig ==
    \/ KeyWithin({"1", "3", "Left", "Right"}, {"DailyGoal", "HideHintsAfter"},
                 "settings") /\ UNCHANGED <<drift, cycle>>
    \/ Load
    \/ LoadWithout

SpecConfig == InitWith({Config_default}, {<<>>}) /\ [][NextConfig]_vars

\* SpecData: the program started on stored tasks and tags; the countdown is
\* run, tasks are deleted, and all data is reset in the settings view
LoadedTags == <<[name |-> <<"a">>, last_used |-> 1, count |-> 1]>>

InitStored(config, tasks, tag_store) ==
    /\ app = App_new(config, tasks, tag_store)
    /\ today = 1
    /\ last = "init"
    /\ drift = [base |-> app.remaining_time, run |-> 0, pauses |-> 0]
    /\ cycle = [valid |-> TRUE, k |-> 0]

NextData ==
    \/ Key({" ", "d", "3", "Esc", "Right"}, {"ResetData"}) /\ UNCHANGED <<drift, cycle>>
    \/ Tick /\ UNCHANGED <<drift, cycle>>
    \/ AdvanceTime /\ UNCHANGED <<drift, cycle>>

SpecData ==
    InitStored(Config_loaded(1, 1, 1, 2, FALSE, FALSE), LoadedTasks, LoadedTags)
        /\ [][NextData]_vars

\* SpecSelect: the task list edited (add, delete, clear completed, toggle
\* completed, navigation) while the engine runs, skips and completes, and all
\* data reset from the settings view
MaxSpent == 1

RECURSIVE SumSpent(_)
SumSpent(tasks) ==
    IF tasks = <<>> THEN 0 ELSE Head(tasks).pomodoros_spent + SumSpent(Tail(tasks))

\* the tasks added are named by one character, the note prompt is dismissed
\* without a note, DELETE is typed without mistakes, one interval is recorded
\* between two resets, MaxSpent pomodoros are spent on the tasks together, and
\* a countdown that was started is not paused midway
SelectWithin(a) ==
    /\ a.is_paused => a.remaining_time \in {0, get_current_duration(a)}
    /\ SumSpent(a.tasks) <= MaxSpent
    /\ Len(Sessions(a)) <= 1
    /\ a.input_mode = "SessionNote" => a.input_buffer = <<>>
    /\ a.input_mode = "AddingTask" => Len(a.input_buffer) <= 1
    /\ a.input_mode = "ConfirmReset" => starts_with(DELETE, a.input_buffer)

\* tick is called every 100 ms, so it has run after the time passed and
\* before the next key or more time; the text prompts are filled in at once
NextSelect ==
    \/ Key({" ", "n", "a", "d", "c", "Enter", "Up", "Down", "3", "1", "Right"}, {"ResetData"})
            /\ last # "time" /\ SelectWithin(app') /\ UNCHANGED <<drift, cycle>>
    \/ Tick /\ SelectWithin(app') /\ UNCHANGED <<drift, cycle>>
    \/ AdvanceTime /\ last # "time" /\ app.input_mode = "Normal"
            /\ UNCHANGED <<drift, cycle>>

SpecSelect ==
    InitWith({Config_loaded(1, 1, 1, 1, FALSE, FALSE)}, {<<>>})
        /\ [][NextSelect]_vars

\* SpecLive: the loop of run_app left to itself while a countdown runs: the
\* user acts only while the engine is paused (starts a countdown, skips,
\* switches the mode, fills in the note prompt), the loop calls tick on every
\* turn, and time goes on while the countdown runs.  A countdown is started
\* only while the history has room for the session it records.
NextLive ==
    \/ Key({" ", "r", "n", "m"}, {}) /\ app.is_paused
            /\ (~app'.is_paused => Len(Sessions(app')) < MaxHist)
            /\ UNCHANGED <<drift, cycle>>
    \/ Tick /\ UNCHANGED <<drift, cycle>>
    \/ AdvanceTime /\ UNCHANGED <<drift, cycle>>

SpecLive ==
    /\ InitWith(LoadedConfigs, {<<>>})
    /\ [][NextLive]_vars
    /\ WF_vars(Tick /\ UNCHANGED <<drift, cycle>>)
    /\ WF_vars(AdvanceTime /\ UNCHANGED <<drift, cycle>>)

----------------------------------------------------------------------------
(* Claims                                                                   *)

\* the engine snapshot
Snapshot(a) ==
    <<a.timer_mode, a.timer_state, a.remaining_time, a.is_paused,
      a.start_instant, a.start_remaining, a.session_count>>

\* C1: in every reachable state is_paused is true exactly when the start
\* anchor is absent.
C1_PausedIffNoAnchor == app.is_paused <=> app.start_instant = None

\* C2: over any run of pause/resume cycles with ticks in between and no
\* completion or other restart, the remaining time while paused is the
\* remaining time the run began with less the total time spent running,
\* floored at zero; while running, the time recomputed from the anchor is
\* the same quantity.
C2_DriftFree ==
    IF app.is_paused
    THEN app.remaining_time = SaturatingSub(drift.base, drift.run)
    ELSE update_remaining_time(app).remaining_time = SaturatingSub(drift.base, drift.run)

\* the second pause of a run, after two running intervals that together are
\* shorter than the countdown
C2_Witness ==
    /\ last = "toggle"
    /\ app.is_paused
    /\ drift.pauses >= 2
    /\ drift.run >= 2 * TimeStep
    /\ drift.run < drift.base
    /\ app.remaining_time = drift.base - drift.run

\* C3: tick is idempotent at one instant: from every reachable state, a second
\* tick with no time passed since the first leaves the engine snapshot, the
\* session history and the pending session as the first tick left them.
C3_TickIdempotent ==
    LET a1 == tick(app, today)
        a2 == tick(a1, today)
    IN  /\ Snapshot(a2) = Snapshot(a1)
        /\ Sessions(a2) = Sessions(a1)
        /\ a2.pending_session = a1.pending_session

\* a tick has completed a Work interval and auto-started the break, which is
\* running when the second tick comes
C3_Witness ==
    /\ last = "complete"
    /\ ~app.is_paused
    /\ app.timer_state = "ShortBreak"
    /\ IsSome(app.pending_session)

\* C4: with the cycle length N unchanged and counting from session_count = 0,
\* the k-th Work completion in a row (natural or skip) enters LongBreak when
\* N divides k and ShortBreak otherwise, and leaves session_count = k mod N;
\* every break completion or skip enters Work and keeps session_count.
C4_PomodoroCycle ==
    [][(last' \in {"skip", "complete"} /\ app.timer_mode = Pomodoro) =>
        IF app.timer_state = "Work"
        THEN cycle'.valid =>
                /\ cycle'.k = cycle.k + 1
                /\ app'.timer_state =
                        IF cycle'.k % app.sessions_before_long = 0
                        THEN "LongBreak" ELSE "ShortBreak"
                /\ app'.session_count = cycle'.k % app.sessions_before_long
                /\ app'.sessions_before_long = app.sessions_before_long
        ELSE /\ app'.timer_state = "Work"
             /\ app'.session_count = app.session_count
             /\ cycle' = cycle]_vars

\* the second long break of a cycle of three: the sixth Work completion
C4_Witness ==
    /\ cycle.valid
    /\ cycle.k = 2 * MaxSbl
    /\ app.sessions_before_long = MaxSbl
    /\ last \in {"skip", "complete"}
    /\ app.timer_state = "LongBreak"
    /\ app.session_count = 0

\* C5: right after a Pomodoro transition (natural completion or skip)
\* remaining_time is the nominal duration of the state entered, and the engine
\* runs exactly when auto_start_breaks is set and the state entered is a break.
C5_AfterTransition ==
    (last \in {"skip", "complete"} /\ app.timer_mode = Pomodoro) =>
        /\ app.remaining_time = duration_for_state(app, app.timer_state)
        /\ ~app.is_paused <=> (app.config.auto_start_breaks /\ app.timer_state # "Work")

\* a long break has completed with auto-start on: Work is entered, paused
C5_Witness ==
    /\ last = "complete"
    /\ app.timer_mode = Pomodoro
    /\ app.timer_state = "Work"
    /\ app.config.auto_start_breaks
    /\ app.is_paused
    /\ Sessions(app) # <<>>
    /\ Sessions(app)[1].session_type = "long_break"

\* C6: a skip records no session: the history and pending_session are as
\* before; in Pomodoro mode the state advances by the transition table whatever
\* the remaining time, in Timer mode nothing changes.
C6_SkipRecordsNothing ==
    [][last' = "skip" =>
        /\ Sessions(app') = Sessions(app)
        /\ app'.session_history = app.session_history
        /\ app'.pending_session = app.pending_session
        /\ app.timer_mode # Pomodoro => app' = app
        /\ app.timer_mode = Pomodoro =>
            /\ app'.timer_mode = Pomodoro
            /\ app.timer_state = "Work"
                 /\ app.session_count + 1 < app.sessions_before_long =>
                    /\ app'.timer_state = "ShortBreak"
                    /\ app'.session_count = app.session_count + 1
            /\ app.timer_state = "Work"
                 /\ app.session_count + 1 >= app.sessions_before_long =>
                    /\ app'.timer_state = "LongBreak"
                    /\ app'.session_count = 0
            /\ app.timer_state # "Work" =>
                    /\ app'.timer_state = "Work"
                    /\ app'.session_count = app.session_count]_vars

\* a skip out of a half-run long break, with a session in the history
C6_Witness ==
    /\ last = "skip"
    /\ app.timer_mode = Pomodoro
    /\ app.timer_state = "Work"
    /\ Sessions(app) # <<>>

\* C7: a skip leaves every task's pomodoros_spent as it was.
C7_SkipKeepsCounters ==
    [][last' = "skip" =>
        /\ Len(app'.tasks) = Len(app.tasks)
        /\ \A i \in 1..Len(app.tasks) :
                app'.tasks[i].pomodoros_spent = app.tasks[i].pomodoros_spent]_vars

\* C8: a natural completion of Work with tasks in the list adds exactly 1 to the
\* selected task's pomodoros_spent and leaves the other tasks' counters.
C8_CompletionCountsOnce ==
    [][(last' = "complete" /\ app.timer_state = "Work" /\ app.tasks # <<>>) =>
        /\ Len(app'.tasks) = Len(app.tasks)
        /\ \A i \in 1..Len(app.tasks) :
                app'.tasks[i].pomodoros_spent =
                    app.tasks[i].pomodoros_spent
                        + (IF i = app.selected_task_index + 1 THEN 1 ELSE 0)]_vars

\* C9: in every reachable state 0 <= session_count < sessions_before_long.
C9_CountBelowCycleLength ==
    /\ 0 <= app.session_count
    /\ app.session_count < app.sessions_before_long

\* C10: a session enters the history only by a natural completion: a break
\* completion appends it in the completing tick, with the type of the state
\* that ended and the nominal duration; a Work completion appends nothing and
\* sets pending_session (type work, the nominal duration), which stays until
\* the note prompt is dismissed, and the dismissal appends exactly it.
C10_SessionsFromCompletions ==
    [][/\ (Sessions(app') # Sessions(app) /\ last' # "reset_all") =>
            /\ Len(Sessions(app')) = Len(Sessions(app)) + 1
            /\ SubSeq(Sessions(app'), 1, Len(Sessions(app))) = Sessions(app)
            /\ LET s == Sessions(app')[Len(Sessions(app'))]
               IN  \/ /\ last' = "complete"
                      /\ app.timer_state # "Work"
                      /\ s.session_type = session_type(app.timer_state)
                      /\ s.duration_secs = get_current_duration(app)
                   \/ /\ last' \in {"dismiss", "continue"}
                      /\ IsSome(app.pending_session)
                      /\ app'.pending_session = None
                      /\ s.session_type = "work"
                      /\ s.session_type = app.pending_session[1].session_type
                      /\ s.duration_secs = app.pending_session[1].duration_secs
       /\ last' = "complete" =>
            IF app.timer_state = "Work"
            THEN /\ Sessions(app') = Sessions(app)
                 /\ IsSome(app'.pending_session)
                 /\ app'.pending_session[1].session_type = "work"
                 /\ app'.pending_session[1].duration_secs = get_current_duration(app)
            ELSE /\ Len(Sessions(app')) = Len(Sessions(app)) + 1
                 /\ app'.pending_session = app.pending_session
       /\ last' # "complete" /\ app'.pending_session # app.pending_session =>
            /\ last' \in {"dismiss", "continue"}
            /\ app'.pending_session = None
            /\ Len(Sessions(app')) = Len(Sessions(app)) + 1]_vars

\* the note prompt was dismissed: the pending Work session is in the history
C10_Witness ==
    /\ last = "dismiss"
    /\ app.pending_session = None
    /\ Len(Sessions(app)) = 1
    /\ Sessions(app)[1].session_type = "work"
    /\ Sessions(app)[1].duration_secs = app.config.work_duration_mins * SecsPerMin

\* C11: reset sets remaining_time to the full duration of the current state
\* (Pomodoro) or of the Timer mode, clears the anchor and pauses; timer_mode,
\* timer_state, session_count and the session history stay as they were.
C11_ResetRestoresDuration ==
    [][last' = "reset" =>
        /\ app'.remaining_time =
                IF app.timer_mode = Pomodoro
                THEN duration_for_state(app, app.timer_state)
                ELSE app.timer_mode.secs
        /\ app'.start_instant = None
        /\ app'.is_paused
        /\ app'.timer_mode = app.timer_mode
        /\ app'.timer_state = app.timer_state
        /\ app'.session_count = app.session_count
        /\ app'.session_history = app.session_history]_vars

\* a reset in the middle of a cycle: a long break of a cycle of two, with a
\* session in the history
C11_Witness ==
    /\ last = "reset"
    /\ app.timer_mode = Pomodoro
    /\ app.timer_state = "LongBreak"
    /\ app.remaining_time = app.config.long_break_mins * SecsPerMin
    /\ app.sessions_before_long = 2
    /\ Sessions(app) # <<>>

\* C12: a mode switch leaves the engine paused with no anchor; entering Timer
\* mode sets the countdown to the configured work duration; returning to
\* Pomodoro sets Work, session_count = 0 and the Work duration; so a second
\* switch after a switch out of any Pomodoro state gives a paused full Work
\* interval.
C12_ModeSwitch ==
    [][last' = "mode" =>
        /\ app'.is_paused
        /\ app'.start_instant = None
        /\ IF app.timer_mode = Pomodoro
           THEN /\ app'.timer_mode = Timer(app.config.work_duration_mins * SecsPerMin)
                /\ app'.remaining_time = app.config.work_duration_mins * SecsPerMin
                /\ LET b == toggle_mode(app')
                   IN  /\ b.timer_mode = Pomodoro
                       /\ b.timer_state = "Work"
                       /\ b.session_count = 0
                       /\ b.remaining_time = app.config.work_duration_mins * SecsPerMin
                       /\ b.is_paused
                       /\ b.start_instant = None
           ELSE /\ app'.timer_mode = Pomodoro
                /\ app'.timer_state = "Work"
                /\ app'.session_count = 0
                /\ app'.remaining_time = app.config.work_duration_mins * SecsPerMin]_vars

\* Timer mode was entered out of a break in the middle of a cycle: the switch
\* back has a state and a count to reset
C12_Witness ==
    /\ last = "mode"
    /\ app.timer_mode # Pomodoro
    /\ app.timer_state = "ShortBreak"
    /\ app.session_count > 0
    /\ app.is_paused

\* the App after dt more seconds: an Instant it holds is dt older
Aged(a, dt) ==
    IF IsSome(a.start_instant)
    THEN [a EXCEPT !.start_instant = Some(@[1] + dt)]
    ELSE a

\* C13: a tick while paused, after any amount of time, changes nothing of the
\* engine snapshot, appends no session and sets no pending session.
C13_PausedTickNoOp ==
    app.is_paused =>
        \A k \in 0..MaxClockSteps :
            LET a == Aged(app, k * TimeStep)
            IN  /\ Snapshot(tick(a, today)) = Snapshot(a)
                /\ Sessions(tick(a, today)) = Sessions(a)
                /\ tick(a, today).pending_session = a.pending_session

\* a tick was taken while paused in the middle of a countdown
C13_Witness ==
    /\ last = "tick"
    /\ app.is_paused
    /\ app.remaining_time > 0
    /\ app.remaining_time < get_current_duration(app)

\* C14: a natural completion in Timer mode leaves timer_mode, timer_state and
\* session_count as they were, and the engine paused with remaining_time zero.
C14_TimerModeNoCycling ==
    [][(last' = "complete" /\ app.timer_mode # Pomodoro) =>
        /\ app'.timer_mode = app.timer_mode
        /\ app'.timer_state = app.timer_state
        /\ app'.session_count = app.session_count
        /\ app'.is_paused
        /\ app'.remaining_time = 0]_vars

\* the flat Timer has completed
C14_Witness ==
    /\ last = "complete"
    /\ app.timer_mode # Pomodoro
    /\ app.is_paused
    /\ app.remaining_time = 0
    /\ IsSome(app.pending_session)

\* the session a step has appended to the history
Added(a2) == Sessions(a2)[Len(Sessions(a2))]

\* C15: add of a Work session dated d: with no prior date current_streak and
\* longest_streak become 1; with d the day after last_session_date
\* current_streak grows by 1 and longest_streak is the larger of itself and the
\* new current_streak; with d more than a day later, or earlier, current_streak
\* becomes 1; and last_session_date becomes d.
C15_StreakRule ==
    [][(last' = "add" /\ Added(app').session_type = "work") =>
        LET h == app.session_history
            h2 == app'.session_history
            d == Added(app').date
        IN  /\ h2.last_session_date = Some(d)
            /\ h.last_session_date = None =>
                    h2.current_streak = 1 /\ h2.longest_streak = 1
            /\ (IsSome(h.last_session_date) /\ d = h.last_session_date[1] + 1) =>
                    /\ h2.current_streak = h.current_streak + 1
                    /\ h2.longest_streak = Max(h.longest_streak, h2.current_streak)
            /\ (IsSome(h.last_session_date)
                    /\ (d > h.last_session_date[1] + 1 \/ d < h.last_session_date[1])) =>
                    h2.current_streak = 1]_vars

\* a Work session dated before the last one was added to a streak of two
C15_Witness ==
    /\ last = "add"
    /\ Len(Sessions(app)) = 3
    /\ \A i \in 1..3 : Sessions(app)[i].session_type = "work"
    /\ Sessions(app)[1].date + 1 = Sessions(app)[2].date
    /\ Sessions(app)[3].date < Sessions(app)[2].date
    /\ app.session_history.current_streak = 1
    /\ app.session_history.longest_streak = 2

\* C16: add of a Work session dated last_session_date leaves current_streak,
\* longest_streak and last_session_date as they were.
C16_SameDayKeepsStreak ==
    [][(last' = "add" /\ Added(app').session_type = "work"
            /\ app.session_history.last_session_date = Some(Added(app').date)) =>
        /\ app'.session_history.current_streak = app.session_history.current_streak
        /\ app'.session_history.longest_streak = app.session_history.longest_streak
        /\ app'.session_history.last_session_date
                = app.session_history.last_session_date]_vars

\* a second Work session on the second day of a streak of two
C16_Witness ==
    /\ last = "add"
    /\ Len(Sessions(app)) = 3
    /\ \A i \in 1..3 : Sessions(app)[i].session_type = "work"
    /\ Sessions(app)[1].date + 1 = Sessions(app)[2].date
    /\ Sessions(app)[3].date = Sessions(app)[2].date
    /\ app.session_history.current_streak = 2

\* C17: from the empty history, through adds of any type and date and
\* load-time recalculations, longest_streak >= current_streak.
C17_LongestAtLeastCurrent ==
    app.session_history.longest_streak >= app.session_history.current_streak

\* a streak of two was broken by a later Work session: the longest streak is
\* above the current one
C17_Witness ==
    /\ last = "add"
    /\ app.session_history.longest_streak = 2
    /\ app.session_history.current_streak = 1
    /\ Len(Sessions(app)) = 3

\* whether a Work session of the list is dated day
HasWork(ss, day) ==
    \E i \in 1..Len(ss) : ss[i].session_type = "work" /\ ss[i].date = day

\* the number of consecutive days ending at day that each hold a Work session
RECURSIVE ConsecutiveDays(_, _)
ConsecutiveDays(ss, day) ==
    IF day >= 1 /\ HasWork(ss, day) THEN 1 + ConsecutiveDays(ss, day - 1) ELSE 0

NonDecreasing(ss) == \A i \in 1..(Len(ss) - 1) : ss[i].date <= ss[i + 1].date

\* C18: from the empty history, with the sessions added in non-decreasing date
\* order, current_streak after the add of a Work session is the number of
\* consecutive days, ending at its date, that each hold a Work session of the
\* history.
C18_StreakCountsDays ==
    [][(last' = "add" /\ Added(app').session_type = "work") =>
        /\ NonDecreasing(Sessions(app'))
        /\ app'.session_history.current_streak
                = ConsecutiveDays(Sessions(app'), Added(app').date)]_vars

\* Work sessions on three days in a row, a streak of three
C18_Witness ==
    /\ last = "add"
    /\ Len(Sessions(app)) = 3
    /\ \A i \in 1..3 : Sessions(app)[i].session_type = "work" /\ Sessions(app)[i].date = i
    /\ app.session_history.current_streak = 3

\* C19: the load-time recalculation sets current_streak to 0 when today is
\* more than one day after last_session_date and leaves it otherwise; it leaves
\* longest_streak, last_session_date and the sessions.
C19_RecalculateOnLoad ==
    [][last' = "load" =>
        LET h == app.session_history
            h2 == app'.session_history
        IN  /\ h2.current_streak =
                    IF IsSome(h.last_session_date) /\ today - h.last_session_date[1] > 1
                    THEN 0 ELSE h.current_streak
            /\ h2.longest_streak = h.longest_streak
            /\ h2.last_session_date = h.last_session_date
            /\ h2.sessions = h.sessions]_vars

\* the app was loaded two days after the last Work session
C19_Witness ==
    /\ last = "load"
    /\ app.session_history.last_session_date = Some(1)
    /\ today = 3
    /\ app.session_history.current_streak = 0
    /\ app.session_history.longest_streak >= 1

\* the date of the last Work session of a list, None when it holds none
LastWorkDate(ss) ==
    IF \E i \in 1..Len(ss) : ss[i].session_type = "work"
    THEN Some(ss[CHOOSE i \in 1..Len(ss) :
                    /\ ss[i].session_type = "work"
                    /\ \A j \in (i + 1)..Len(ss) : ss[j].session_type # "work"].date)
    ELSE None

\* C20: add of a session that is not work appends it and leaves current_streak,
\* longest_streak and last_session_date; so last_session_date is the date of
\* the Work session added last, or none.
C20_BreaksKeepStreak ==
    [][/\ (last' = "add" /\ Added(app').session_type # "work") =>
            /\ Sessions(app') = Append(Sessions(app), Added(app'))
            /\ app'.session_history.current_streak = app.session_history.current_streak
            /\ app'.session_history.longest_streak = app.session_history.longest_streak
            /\ app'.session_history.last_session_date
                    = app.session_history.last_session_date
       /\ app'.session_history.last_session_date = LastWorkDate(Sessions(app'))]_vars

\* a long break dated after the last Work session was added
C20_Witness ==
    /\ last = "add"
    /\ Len(Sessions(app)) = 2
    /\ Sessions(app)[1].session_type = "work"
    /\ Sessions(app)[2].session_type = "long_break"
    /\ Sessions(app)[2].date > Sessions(app)[1].date
    /\ app.session_history.last_session_date = Some(Sessions(app)[1].date)

\* whether p is a prefix of s
IsPrefix(p, s) == Len(p) <= Len(s) /\ SubSeq(s, 1, Len(p)) = p

C22_OneEntryPerName ==
    \A i, j \in 1..Len(app.tag_store) :
        to_lowercase(app.tag_store[i].name) = to_lowercase(app.tag_store[j].name)
            => i = j

\* a name was recorded in both letter cases and another name beside it
C22_Witness ==
    /\ last = "record"
    /\ Len(app.tag_store) = 2
    /\ \E i \in 1..2 : app.tag_store[i].name = <<"A">> /\ app.tag_store[i].count >= 2

\* C23: after every batch recorded and every load the entries of the tag store
\* are in non-increasing order of count.
C23_SortedByCount ==
    last \in {"record", "load"} =>
        \A i \in 1..(Len(app.tag_store) - 1) :
            app.tag_store[i].count >= app.tag_store[i + 1].count

\* a load after an absence keeps two entries, the one of the higher count
\* used last
C23_Witness ==
    /\ last = "load"
    /\ today > TagMaxAgeDays
    /\ Len(app.tag_store) = 2
    /\ app.tag_store[1].count > app.tag_store[2].count
    /\ app.tag_store[1].last_used > app.tag_store[2].last_used

\* the partial tags typed
Partials == {<<>>, <<"a">>, <<"A">>, <<"b">>, <<"B">>, <<"b", "a">>, <<"a", "b">>, <<"x">>}

\* the name of the first entry, in the order of the store, whose lower-cased
\* name starts with pl (mode "prefix") or contains pl (mode "substring")
RECURSIVE FirstMatch(_, _, _)
FirstMatch(tags, pl, mode) ==
    IF tags = <<>> THEN None
    ELSE IF \/ mode = "prefix" /\ starts_with(to_lowercase(Head(tags).name), pl)
            \/ mode = "substring" /\ contains(to_lowercase(Head(tags).name), pl)
         THEN Some(Head(tags).name)
         ELSE FirstMatch(Tail(tags), pl, mode)

\* C24: suggest returns none for an empty partial; otherwise the first entry
\* in store order with partial as a case-insensitive prefix, and only when no
\* entry has such a prefix the first entry containing partial, else none; the
\* suggestion made while typing leaves the store as it was.
C24_Suggest ==
    \A partial \in Partials :
        LET pl == to_lowercase(partial)
            byPrefix == FirstMatch(app.tag_store, pl, "prefix")
            bySubstring == FirstMatch(app.tag_store, pl, "substring")
            typing == [app EXCEPT !.input_mode = "Editing",
                                  !.input_buffer = <<"#">> \o partial]
        IN  /\ suggest(app.tag_store, partial) =
                    IF partial = <<>> THEN None
                    ELSE IF IsSome(byPrefix) THEN byPrefix
                    ELSE bySubstring
            /\ update_tag_suggestion(typing).tag_store = app.tag_store
            /\ update_tag_suggestion(typing).tag_suggestion =
                    suggest(app.tag_store, partial)

\* the entry with the higher count contains "a", the second entry starts with
\* it, and the second is suggested
C24_Witness ==
    /\ Len(app.tag_store) >= 2
    /\ app.tag_store[1].name = <<"b", "a">>
    /\ to_lowercase(app.tag_store[2].name) = <<"a">>
    /\ app.tag_store[1].count > app.tag_store[2].count
    /\ suggest(app.tag_store, <<"a">>) = Some(app.tag_store[2].name)

\* the occurrences of a name in a batch, letter case aside
RECURSIVE Occurrences(_, _)
Occurrences(batch, name) ==
    IF batch = <<>> THEN 0
    ELSE (IF to_lowercase(Head(batch)) = to_lowercase(name) THEN 1 ELSE 0)
            + Occurrences(Tail(batch), name)

\* the name as the batch first spells it
FirstTyped(batch, name) ==
    batch[CHOOSE k \in 1..Len(batch) :
            /\ to_lowercase(batch[k]) = to_lowercase(name)
            /\ \A l \in 1..(k - 1) : to_lowercase(batch[l]) # to_lowercase(name)]

\* C25: record_usage raises the count of each existing entry by its
\* occurrences in the batch, letter case aside, and sets last_used of the
\* entries that occur to today; every name without a match gets one new entry,
\* spelled as first typed, counting its occurrences from 1; no other entry
\* changes; the sum of the counts grows by the length of the batch.
C25_RecordUsage ==
    \A batch \in Batches : \A new \in {record_usage(app.tag_store, batch, today)} :
        LET old == app.tag_store
            known(name) == \E i \in 1..Len(old) :
                                to_lowercase(old[i].name) = to_lowercase(name)
        IN  /\ SumCounts(new) = SumCounts(old) + Len(batch)
            /\ \A i \in 1..Len(old) : \E j \in 1..Len(new) :
                    /\ new[j].name = old[i].name
                    /\ new[j].count = old[i].count + Occurrences(batch, old[i].name)
                    /\ new[j].last_used = IF Occurrences(batch, old[i].name) > 0
                                          THEN today ELSE old[i].last_used
            /\ \A j \in 1..Len(new) :
                    \/ known(new[j].name)
                    \/ /\ Occurrences(batch, new[j].name) >= 1
                       /\ new[j].name = FirstTyped(batch, new[j].name)
                       /\ new[j].count = Occurrences(batch, new[j].name)
                       /\ new[j].last_used = today
            /\ Len(new) = Len(old) + Cardinality(
                    {to_lowercase(batch[k]) : k \in 1..Len(batch)}
                        \ {to_lowercase(old[i].name) : i \in 1..Len(old)})

\* a batch matched one entry today and left an entry of an earlier day
C25_Witness ==
    /\ last = "record"
    /\ \E i, j \in 1..Len(app.tag_store) :
            /\ app.tag_store[i].count >= 2
            /\ app.tag_store[i].last_used = today
            /\ app.tag_store[j].last_used < today

\* the least and the greatest value of a numeric setting
SettingMin(field) == IF field = "HideHintsAfter" THEN 0 ELSE 1

SettingMax(field) ==
    CASE field = "WorkDuration" -> WorkMinsMax
      [] field \in {"ShortBreak", "LongBreak"} -> BreakMinsMax
      [] field = "SessionsBeforeLong" -> SblMax
      [] field = "DailyGoal" -> GoalMax
      [] field = "HideHintsAfter" -> HideHintsMax

\* C26: from the default config, after any adjustments by +1 and -1, every
\* numeric setting is within its range, and a further adjustment of any of
\* them moves it by one inside the range, leaves it at the bound it is at, and
\* leaves the other settings.
C26_SettingsClamped ==
    /\ \A field \in NumericFields :
            /\ SettingMin(field) <= SettingValue(app.config, field)
            /\ SettingValue(app.config, field) <= SettingMax(field)
    /\ \A field \in NumericFields, delta \in {-1, 1} :
            LET after == adjust_setting(app, field, delta).config
                v == SettingValue(app.config, field)
            IN  /\ SettingValue(after, field) =
                        IF v + delta < SettingMin(field) THEN SettingMin(field)
                        ELSE IF v + delta > SettingMax(field) THEN SettingMax(field)
                        ELSE v + delta
                /\ \A other \in NumericFields \ {field} :
                        SettingValue(after, other) = SettingValue(app.config, other)

\* the work minutes were raised from the default to the upper bound
C26_Witness ==
    /\ last = "adjust"
    /\ app.config.work_duration_mins = WorkMinsMax
    /\ adjust_setting(app, "WorkDuration", 1).config = app.config

StreakBroken(h, day) ==
    IsSome(h.last_session_date) /\ day - h.last_session_date[1] > 1

C28_MissingFieldDefaults ==
    [][last' \in ConfigFields =>
        app'.config = [app.config EXCEPT ![last'] = Config_default[last']]]_vars

\* the positions of the Work sessions dated within D
WorkIn(sessions, D) ==
    {i \in 1..Len(sessions) :
        sessions[i].session_type = "work" /\ sessions[i].date \in D}

\* the seconds of the sessions at the positions I
RECURSIVE SecsAt(_, _)
SecsAt(sessions, I) ==
    IF I = {} THEN 0
    ELSE LET i == CHOOSE i \in I : TRUE
         IN  sessions[i].duration_secs + SecsAt(sessions, I \ {i})

\* C29: today's pomodoro count and focus seconds are the number and the
\* seconds of the Work sessions dated today, the all-time focus seconds are
\* the seconds of all Work sessions, recent_sessions(n) is the last
\* min(n, length) sessions, the latest first; all four are the same for a
\* history of the same sessions whatever its streak fields.
C29_Aggregates ==
    LET h == app.session_history
        ss == h.sessions
        bare == [SessionHistory_default EXCEPT !.sessions = ss]
        dates == {ss[i].date : i \in 1..Len(ss)}
    IN  /\ today_pomodoro_count(h, today) = Cardinality(WorkIn(ss, {today}))
        /\ today_focus_secs(h, today) = SecsAt(ss, WorkIn(ss, {today}))
        /\ total_focus_secs(h) = SecsAt(ss, WorkIn(ss, dates))
        /\ \A n \in 0..(MaxAdds + 1) :
                LET recent == recent_sessions(h, n)
                IN  /\ Len(recent) = Min(n, Len(ss))
                    /\ \A k \in 1..Len(recent) : recent[k] = ss[Len(ss) + 1 - k]
                    /\ recent_sessions(bare, n) = recent
        /\ today_pomodoro_count(bare, today) = today_pomodoro_count(h, today)
        /\ today_focus_secs(bare, today) = today_focus_secs(h, today)
        /\ total_focus_secs(bare) = total_focus_secs(h)

\* the history holds a Work session of today, a Work session of another day
\* and a break of today
C29_Witness ==
    /\ last = "add"
    /\ \E i, j, k \in 1..Len(Sessions(app)) :
            /\ Sessions(app)[i].session_type = "work" /\ Sessions(app)[i].date = today
            /\ Sessions(app)[j].session_type = "work" /\ Sessions(app)[j].date # today
            /\ Sessions(app)[k].session_type # "work" /\ Sessions(app)[k].date = today
    /\ app.session_history.current_streak >= 1

\* C30: Space on the empty note prompt saves the pending Work session without
\* a note and leaves the prompt, and the engine is running after it, whatever
\* auto_start_breaks.
C30_SpaceContinues ==
    [][last' = "continue" =>
        /\ ~app'.is_paused
        /\ IsSome(app'.start_instant)
        /\ app'.input_mode = "Normal"
        /\ app'.pending_session = None
        /\ Len(Sessions(app')) = Len(Sessions(app)) + 1
        /\ Sessions(app')[Len(Sessions(app'))].session_type = "work"
        /\ Sessions(app')[Len(Sessions(app'))].note = None]_vars

\* C31: in the note prompt Enter, Esc and Space on the empty buffer each
\* append one work session made of pending_session, with the buffer as its
\* note for Enter on a non-blank buffer and no note otherwise, clear
\* pending_session and return input_mode to Normal; after Enter and Esc
\* is_paused holds.
C31_NoteDismissal ==
    (app.current_view = "Timer" /\ app.input_mode = "SessionNote") =>
        /\ IsSome(app.pending_session)
        /\ \A key \in {"Enter", "Esc"} \cup (IF app.input_buffer = <<>> THEN {" "} ELSE {}) :
            \A after \in {handle_key(app, key, "WorkDuration", today)} :
                LET p == app.pending_session[1]
                    note == IF key = "Enter" /\ ~IsBlank(app.input_buffer)
                            THEN Some(app.input_buffer) ELSE None
                IN  /\ p.session_type = "work"
                    /\ Sessions(after) = Append(Sessions(app),
                            [date |-> today, session_type |-> "work",
                             duration_secs |-> p.duration_secs, completed |-> TRUE,
                             task_name |-> p.task_name, note |-> note])
                    /\ after.pending_session = None
                    /\ after.input_mode = "Normal"
                    /\ after.input_buffer = <<>>
                    /\ key \in {"Enter", "Esc"} => after.is_paused

\* the prompt was dismissed with a note typed
C31_Witness ==
    /\ last = "dismiss"
    /\ Len(Sessions(app)) = 1
    /\ Sessions(app)[1].note = Some(<<"x">>)
    /\ app.pending_session = None
    /\ app.is_paused

\* whether a step empties the record that was r and is r2
Emptied(r, r2) == r # <<>> /\ r2 = <<>>

\* Esc, and Enter on a buffer other than DELETE, in the reset confirmation
\* return to Normal mode and leave the history, the tasks, the tags and the
\* engine
ConfirmationDeclined ==
    (app.current_view = "Settings" /\ app.input_mode = "ConfirmReset") =>
        \A key \in {"Esc"} \cup (IF app.input_buffer # DELETE THEN {"Enter"} ELSE {}) :
            \A after \in {handle_key(app, key, "ResetData", today)} :
                /\ after.input_mode = "Normal"
                /\ after.session_history = app.session_history
                /\ after.tasks = app.tasks
                /\ after.tag_store = app.tag_store
                /\ Snapshot(after) = Snapshot(app)

\* the step is Enter on DELETE in the reset confirmation of the settings view
ResetConfirmed ==
    /\ last' = "reset_all"
    /\ app.current_view = "Settings"
    /\ app.input_mode = "ConfirmReset"
    /\ app.input_buffer = DELETE

TasksRemoved ==
    /\ last' = "other"
    /\ app.current_view = "Timer"
    /\ app.input_mode = "Normal"
    /\ app'.session_history = app.session_history
    /\ app'.tag_store = app.tag_store

C33_ResetAll ==
    [][last' = "reset_all" =>
        /\ Sessions(app') = <<>>
        /\ app'.tasks = <<>>
        /\ app'.tag_store = <<>>
        /\ app'.session_history.current_streak = 0
        /\ app'.session_history.longest_streak = 0
        /\ app'.session_count = 0
        /\ app'.is_paused
        /\ app'.remaining_time = get_current_duration(app')]_vars

\* C34: in every reachable state the task selection is valid:
\* selected_task_index is 0 when the task list is empty and less than the
\* number of tasks otherwise.
C34_SelectionValid ==
    IF app.tasks = <<>> THEN app.selected_task_index = 0
    ELSE app.selected_task_index \in 0..(Len(app.tasks) - 1)

\* the selection is on the last task of a full list, that task completed and
\* with a pomodoro spent on it: tasks were added, the selection moved, and an
\* interval completed or was skipped
C34_Witness ==
    /\ Len(app.tasks) = MaxTasks
    /\ app.selected_task_index = MaxTasks - 1
    /\ app.tasks[MaxTasks].completed
    /\ app.tasks[MaxTasks].pomodoros_spent > 0
    /\ Sessions(app) # <<>>

\* C35: in every reachable state pending_session is present if and only if
\* input_mode is SessionNote, so no completed Work interval is lost.
C35_PendingIffPrompt ==
    IsSome(app.pending_session) <=> app.input_mode = "SessionNote"

\* C36: in flat Timer mode a countdown completes at most once: after a
\* completion was processed and the user resumed the timer from the note
\* prompt, no further completion is processed (none until reset or a mode
\* switch has restored remaining_time).
C36_CompletesOnce ==
    [][~(app.timer_mode # Pomodoro /\ last = "continue" /\ last' = "complete")]_vars

\* a step that resumes the countdown: a resume from pause, or the auto-start
\* of a break by a skip or a completion
Resumes ==
    /\ ~app'.is_paused
    /\ \/ app.is_paused
       \/ last' \in {"skip", "complete"} /\ app.timer_mode = Pomodoro

\* C37: whenever the engine is running the start anchor is present and
\* start_remaining is the remaining_time that held at the most recent resume
\* or auto-resume (a resume sets a fresh anchor and start_remaining =
\* remaining_time, and no other step changes start_remaining while running),
\* and the remaining time a tick computes is start_remaining minus the time
\* elapsed since the anchor, floored at zero.
C37_Anchored ==
    [][~app'.is_paused =>
        /\ IsSome(app'.start_instant)
        /\ IF Resumes
           THEN /\ app'.start_instant = Some(Instant_now)
                /\ app'.start_remaining = app'.remaining_time
           ELSE /\ app'.start_remaining = app.start_remaining
                /\ IsSome(app.start_instant)
                /\ app'.start_instant[1] >= app.start_instant[1]
                /\ last' = "tick" =>
                        app'.remaining_time =
                            SaturatingSub(app'.start_remaining,
                                          elapsed(app'.start_instant[1]))]_vars

\* a break resumed midway has run on: the remaining time is what was left at
\* the resume less the time since
C37_Witness ==
    /\ ~app.is_paused
    /\ IsSome(app.start_instant)
    /\ last = "tick"
    /\ app.start_remaining < get_current_duration(app)
    /\ app.remaining_time < app.start_remaining
    /\ app.remaining_time > 0

\* C38: in every reachable state remaining_time is at most the nominal
\* duration of the current state and mode, so progress() is within 0..1.
C38_WithinDuration == app.remaining_time <= get_current_duration(app)

\* C39: a running countdown eventually completes: while the loop keeps
\* calling tick and time advances, and the user does not pause, reset, skip or
\* switch the mode, a running engine leads to a processed completion, and the
\* completion ends the interval (the engine is then paused, or runs the next
\* interval from a fresh anchor), so the interval completes once.
C39_EventuallyCompletes ==
    /\ (~app.is_paused) ~> (last = "complete")
    /\ [][last' = "complete" =>
            /\ ~app.is_paused
            /\ \/ app'.is_paused
               \/ /\ app'.start_instant = Some(Instant_now)
                  /\ app'.remaining_time = get_current_duration(app')
            /\ IF app.timer_state = "Work"
               THEN IsSome(app'.pending_session)
               ELSE Len(Sessions(app')) = Len(Sessions(app)) + 1
            /\ app.timer_mode = Pomodoro => app'.timer_state # app.timer_state]_vars

\* a completion was processed by the tick that found the countdown at zero
C39_Witness ==
    /\ last = "complete"
    /\ IsSome(app.pending_session)
    /\ app.timer_state # "Work"

====
